---- MODULE Spec2Model ----
(***************************************************************************)
(* A model of scrape_module.py (Python Tools for Visual Studio): the       *)
(* scraper that walks a live module and writes a textual stub of it.       *)
(*                                                                         *)
(* Python strings are modelled as sequences of chunks ("PyStr"): the       *)
(* characters the code inspects one by one ('-', '.', '(', ')', '[', ']',  *)
(* ',', '=', ':', blanks and the placeholder __T) are always chunks of     *)
(* their own, every other chunk is a run of ordinary characters.  StrOf    *)
(* gives the string a PyStr stands for; two PyStr are the same Python      *)
(* string when their StrOf agree.                                          *)
(***************************************************************************)
EXTENDS Integers, Sequences, FiniteSets, TLC

VARIABLES
    legacy,          \* sys.version_info[0] == 2
    astConstant,     \* the runtime's ast reports literals as Constant nodes
    KNOWN_RESTYPES,  \* Signature.KNOWN_RESTYPES (class attribute, process wide)
    KNOWN_ARGSPECS,  \* Signature.KNOWN_ARGSPECS (class attribute, process wide)
    nsAttrs,         \* what dir()/getattr() of the scanned module give
    pc,              \* position in __main__
    module_name,     \* ScrapeState.module_name
    members,         \* ScrapeState.members
    excluded,        \* EXCLUDED_MEMBERS
    warnings,        \* number of InspectWarning raised by the running scan
    fault,           \* why the running scan aborted ("" while it has not)
    out,             \* the lines dump() printed
    scans,           \* the finished scans of this process, oldest first
    probe            \* inputs and result of the operation under test

vars == <<legacy, astConstant, KNOWN_RESTYPES, KNOWN_ARGSPECS, nsAttrs, pc,
          module_name, members, excluded, warnings, fault, out, scans, probe>>

-----------------------------------------------------------------------------
(* Bounds of the model *)

\* how many names the scanned module exposes at most
MaxMembers == 2
\* how many scans one process runs at most
MaxScans == 3
\* how many arguments an inferred parameter list has at most
MaxArgs == 3
\* how many arguments an implicit list has at most
MaxDefaults == 2
\* how many characters a text given to the example-call extraction has at
\* most
MaxText == 5

-----------------------------------------------------------------------------
(* Python strings *)

\* Python's None where a string may stand
NoneV == <<"<None>">>

\* bool(s) of a string or None
Truthy(s) == s # NoneV /\ s # <<>>

RECURSIVE StrOf(_)
StrOf(s) == IF s = <<>> THEN "" ELSE Head(s) \o StrOf(Tail(s))

\* s.replace(a, b) for a character a that is a chunk of its own
Replace(s, a, b) == [i \in 1..Len(s) |-> IF s[i] = a THEN b ELSE s[i]]

\* a in s, for a character a that is a chunk of its own
HasChar(s, a) == \E i \in 1..Len(s) : s[i] = a

\* sep.join(parts)
RECURSIVE Join(_, _)
Join(parts, sep) ==
    IF parts = <<>> THEN <<>>
    ELSE IF Len(parts) = 1 THEN parts[1]
    ELSE parts[1] \o sep \o Join(Tail(parts), sep)

\* the strings of a sequence of PyStr, as a set
StrSet(seq) == {StrOf(seq[i]) : i \in 1..Len(seq)}

RECURSIVE SeqFilter(_, _)
SeqFilter(s, keep) ==
    IF s = <<>> THEN <<>>
    ELSE (IF keep[1] THEN <<Head(s)>> ELSE <<>>)
         \o SeqFilter(Tail(s), Tail(keep))

\* builtins.__name__
BuiltinsName == IF legacy THEN <<"__builtin__">> ELSE <<"builtins">>

-----------------------------------------------------------------------------
(* The runtime objects a scan can meet.  An object is what introspection   *)
(* reports of it: its type, and for a type its __name__, __module__,       *)
(* __bases__, __mro__[1:], truth value and dir()/getattr().                *)

\* reading the attribute raises
Raises == <<"<raises>">>

\* an attribute that holds something other than a string (__module__ = 5)
NotAString == <<"<not a string>">>

\* inspect.getfullargspec(callable) raised
NoArgspec == [ok |-> FALSE, args |-> <<>>, varargs |-> NoneV, varkw |-> NoneV]

Attr(n, o) == [name |-> n, get |-> o]

DefaultObj ==
    [cls |-> "object", isType |-> FALSE, tname |-> NoneV, tmodule |-> NoneV,
     bases |-> <<>>, mro |-> <<>>, truthy |-> TRUE, attrs |-> <<>>,
     callable |-> FALSE, hasGet |-> FALSE, doc |-> NoneV,
     argspec |-> NoArgspec, hasSig |-> FALSE, sig |-> <<>>, repr |-> <<>>,
     fix |-> <<>>]

\* a parameter inspect.signature reports: its kind ("po" positional only,
\* "pk" positional or keyword, "va" *args, "kw" **kwargs), its default
\* (NoneV: none) and whether ast.literal_eval reads the repr of the default
SigParam(name, kind, default, literal) ==
    [name |-> name, kind |-> kind, default |-> default, literal |-> literal]

\* a type; dir() of every type lists __class__, ahead of the names given here
TypeObj(name, mod, bases, mro, attrs) ==
    [cls |-> "type", isType |-> TRUE, tname |-> name, tmodule |-> mod,
     bases |-> bases, mro |-> mro, callable |-> TRUE,
     attrs |-> <<Attr(<<"__class__">>, "type")>> \o attrs]

\* the documentation texts of the modelled callables
Doc_f == <<"f", "(", "a", ",", " ", "b", "=", "1", ")", "\n", "doc">>
Doc_m == <<"C", ".", "m", "(", "x", ",", " ", "y", "=", "2", ")">>
Doc_round == <<"__round__", "(", "a", ",", " ", "b", "=", "1", ")">>
Doc_C == <<"C", "(", "u", ",", " ", "v", "=", "None", ")", " ", "a class">>
Doc_dup == <<"f", "(", "x", ",", " ", "x", ",", " ", "self", ")">>

\* what is said of each object of the model; the rest is as DefaultObj
Described(id) ==
    CASE id = "object" ->
            TypeObj(<<"object">>, BuiltinsName, <<>>, <<>>,
                    <<Attr(<<"__init__">>, "object_init")>>)
      [] id = "type" ->
            TypeObj(<<"type">>, BuiltinsName, <<"object">>, <<"object">>, <<>>)
      [] id \in {"int", "str", "float", "dict", "tuple"} ->
            TypeObj(<<id>>, BuiltinsName, <<"object">>, <<"object">>, <<>>)
      [] id \in {"module", "function", "builtin_function_or_method",
                 "method_descriptor", "wrapper_descriptor",
                 "getset_descriptor", "member_descriptor"} ->
            TypeObj(<<id>>, BuiltinsName, <<"object">>, <<"object">>, <<>>)
      [] id = "KeyError" ->
            TypeObj(<<"KeyError">>,
                    IF legacy THEN <<"exceptions">> ELSE BuiltinsName,
                    <<"object">>, <<"object">>, <<>>)
      \* class C(object) of the scanned module, with a documented method m
      [] id = "C" ->
            [doc |-> Doc_C] @@
            TypeObj(<<"C">>, <<"mod">>, <<"object">>, <<"object">>,
                    <<Attr(<<"__doc__">>, "str_doc"),
                      Attr(<<"__init__">>, "object_init"),
                      Attr(<<"__module__">>, "str_mod"),
                      Attr(<<"__round__">>, "round"),
                      Attr(<<"m">>, "m")>>)
      \* class D(C): a member of a foreign type, two members whose names
      \* differ by a hyphen only, a member that cannot be read
      [] id = "D" ->
            TypeObj(<<"D">>, <<"mod">>, <<"C">>, <<"C", "object">>,
                    <<Attr(<<"bad">>, "!Exception"),
                      Attr(<<"m">>, "m"),
                      Attr(<<"p", "-", "q">>, "int1"),
                      Attr(<<"p_q">>, "int2"),
                      Attr(<<"prop">>, "prop"),
                      Attr(<<"t">>, "od")>>)
      \* a class that is false: its metaclass defines __len__ and it holds
      \* nothing yet (a registry), or defines __bool__
      [] id = "E" ->
            [truthy |-> FALSE] @@
            TypeObj(<<"E">>, <<"mod">>, <<"object">>, <<"object">>, <<>>)
      \* a class whose __name__ cannot be read
      [] id = "B" ->
            TypeObj(Raises, <<"mod">>, <<"object">>, <<"object">>, <<>>)
      \* a class of the scanned module named like its four bases: one of the
      \* same module, numpy.ndarray, one of another module, one that reports
      \* no module
      [] id = "K" ->
            TypeObj(<<"ndarray">>, <<"mod">>,
                    <<"K_same", "ndarray", "K_other", "K_nomod">>,
                    <<"K_same", "ndarray", "K_other", "K_nomod", "object">>,
                    <<>>)
      [] id = "K_same" ->
            TypeObj(<<"ndarray">>, <<"mod">>, <<"object">>, <<"object">>, <<>>)
      [] id = "K_other" ->
            TypeObj(<<"ndarray">>, <<"other">>, <<"object">>, <<"object">>, <<>>)
      [] id = "K_nomod" ->
            TypeObj(<<"ndarray">>, NoneV, <<"object">>, <<"object">>, <<>>)
      \* numpy.ndarray, which reports numpy though numpy.core defines it
      [] id = "ndarray" ->
            TypeObj(<<"ndarray">>, <<"numpy">>, <<"object">>, <<"object">>, <<>>)
      [] id = "OrderedDict" ->
            TypeObj(<<"OrderedDict">>, <<"collections">>, <<"dict">>,
                    <<"dict", "object">>, <<>>)
      \* a class of the scanned module that the module does not expose
      [] id = "Hidden" ->
            TypeObj(<<"Hidden">>, <<"mod">>, <<"object">>, <<"object">>, <<>>)
      \* types that report no origin, '<unknown>', a hyphenated name
      [] id = "NoMod" ->
            TypeObj(<<"NoMod">>, NoneV, <<"object">>, <<"object">>, <<>>)
      [] id = "Unk" ->
            TypeObj(<<"Unk">>, <<"<unknown>">>, <<"object">>, <<"object">>, <<>>)
      [] id = "Hy" ->
            TypeObj(<<"stat", "-", "result">>, <<"os">>, <<"object">>,
                    <<"object">>, <<>>)
      \* a class whose __module__ is not a string
      [] id = "BadMod" ->
            TypeObj(<<"BadMod">>, NotAString, <<"object">>, <<"object">>,
                    <<>>)
      \* a class of the scanned module, not exposed by it, with such a base
      [] id = "DB" ->
            TypeObj(<<"DB">>, <<"mod">>, <<"BadMod">>,
                    <<"BadMod", "object">>, <<>>)
      \* plain values
      [] id = "int1" -> [cls |-> "int", repr |-> <<"1">>]
      [] id = "int2" -> [cls |-> "int", repr |-> <<"2">>]
      [] id = "str_mod" -> [cls |-> "str", repr |-> <<"'mod'">>]
      [] id = "str_doc" -> [cls |-> "str", repr |-> <<"'doc'">>]
      [] id = "emptydict" -> [cls |-> "dict", repr |-> <<"{}">>]
      [] id = "emptytuple" -> [cls |-> "tuple", repr |-> <<"()">>]
      [] id = "nan" ->
            [cls |-> "float", repr |-> <<"nan">>, fix |-> <<"nan">>]
      [] id = "inf" ->
            [cls |-> "float", repr |-> <<"inf">>, fix |-> <<"inf">>]
      [] id = "ninf" ->
            [cls |-> "float", repr |-> <<"-inf">>, fix |-> <<"-inf">>]
      [] id = "half" -> [cls |-> "float", repr |-> <<"0.5">>]
      [] id = "hidden1" ->
            [cls |-> "Hidden", repr |-> <<"<Hidden 1>">>]
      [] id = "hidden2" ->
            [cls |-> "Hidden", repr |-> <<"<Hidden 2>">>]
      \* a class of the scanned module that the module exposes an instance
      \* of under the name of the class (a static class), and that instance
      \* with what dir() lists of it
      [] id = "Static" ->
            TypeObj(<<"Static">>, <<"mod">>, <<"object">>, <<"object">>,
                    <<Attr(<<"f">>, "f")>>)
      [] id = "static1" ->
            [cls |-> "Static", repr |-> <<"<Static>">>,
             attrs |-> <<Attr(<<"__class__">>, "Static"),
                         Attr(<<"f">>, "f"), Attr(<<"n">>, "int1")>>]
      \* a compiled cffi library: its type is named CompiledLib and reports
      \* the built-in namespace
      [] id = "CompiledLib" ->
            TypeObj(<<"CompiledLib">>, BuiltinsName, <<"object">>,
                    <<"object">>, <<>>)
      [] id = "lib" ->
            [cls |-> "CompiledLib", repr |-> <<"<Lib>">>,
             attrs |-> <<Attr(<<"copy">>, "copy"), Attr(<<"n">>, "int1")>>]
      [] id = "arr" -> [cls |-> "ndarray", repr |-> <<"array([])">>]
      [] id = "od" ->
            [cls |-> "OrderedDict", repr |-> <<"OrderedDict()">>]
      [] id = "broken" -> [cls |-> "B", repr |-> <<"<B>">>]
      [] id = "db1" -> [cls |-> "DB", repr |-> <<"<DB>">>]
      [] id = "submod" -> [cls |-> "module", repr |-> <<"<module>">>]
      \* callables without native metadata
      [] id = "f" ->
            [cls |-> "builtin_function_or_method", callable |-> TRUE,
             doc |-> Doc_f]
      [] id = "copy" ->
            [cls |-> "builtin_function_or_method", callable |-> TRUE]
      [] id = "m" ->
            [cls |-> "method_descriptor", callable |-> TRUE, hasGet |-> TRUE,
             doc |-> Doc_m]
      [] id = "round" ->
            [cls |-> "method_descriptor", callable |-> TRUE, hasGet |-> TRUE,
             doc |-> Doc_round]
      [] id = "object_init" ->
            [cls |-> "wrapper_descriptor", callable |-> TRUE, hasGet |-> TRUE]
      \* a method documented with a repeated parameter and a late self
      [] id = "dup" ->
            [cls |-> "method_descriptor", callable |-> TRUE, hasGet |-> TRUE,
             doc |-> Doc_dup]
      \* a Python function, def pf(a, b=1, *rest): inspect reports its
      \* arguments
      [] id = "pyfunc" ->
            [cls |-> "function", callable |-> TRUE, hasGet |-> TRUE,
             hasSig |-> TRUE,
             sig |-> <<SigParam("a", "pk", NoneV, TRUE),
                       SigParam("b", "pk", <<"1">>, TRUE),
                       SigParam("rest", "va", NoneV, TRUE)>>,
             argspec |-> [ok |-> TRUE, args |-> <<<<"a">>, <<"b">>>>,
                          varargs |-> <<"rest">>, varkw |-> NoneV]]
      \* a Python function, def g(p, /, q=object()): a positional-only
      \* parameter and a default that is no literal
      [] id = "pyfunc2" ->
            [cls |-> "function", callable |-> TRUE, hasGet |-> TRUE,
             hasSig |-> TRUE,
             sig |-> <<SigParam("p", "po", NoneV, TRUE),
                       SigParam("q", "pk", <<"<object>">>, FALSE)>>,
             argspec |-> [ok |-> TRUE, args |-> <<<<"p">>, <<"q">>>>,
                          varargs |-> NoneV, varkw |-> NoneV]]
      \* an accessor: __get__ but no __call__
      [] id = "prop" ->
            [cls |-> "getset_descriptor", hasGet |-> TRUE]
      \* MemberInfo.NO_VALUE = object()
      [] id = "NO_VALUE" -> [cls |-> "object", repr |-> <<"<object>">>]
      \* the None object
      [] OTHER -> [cls |-> "NoneType", repr |-> <<"None">>]

Obj(id) == Described(id) @@ DefaultObj

\* the identifiers Obj describes
ObjIds ==
    {"object", "type", "int", "str", "float", "dict", "tuple", "module",
     "function", "builtin_function_or_method", "method_descriptor",
     "wrapper_descriptor", "getset_descriptor", "member_descriptor",
     "KeyError", "C", "D", "E", "B", "K", "K_same", "K_other", "K_nomod",
     "ndarray",
     "OrderedDict", "Hidden", "NoMod", "Unk", "Hy", "BadMod", "DB", "db1",
     "int1", "int2", "str_mod", "str_doc", "emptydict", "emptytuple", "nan",
     "inf", "ninf", "half", "hidden1", "hidden2", "Static", "static1",
     "CompiledLib", "lib",
     "arr", "od", "broken", "submod", "f",
     "copy", "m", "round", "object_init", "dup", "pyfunc", "pyfunc2",
     "prop",
     "NO_VALUE", "None"}

TypeIds == {id \in ObjIds : Obj(id).isType}

-----------------------------------------------------------------------------
(* Origin resolution *)

LIES_ABOUT_MODULE ==
    {StrOf(BuiltinsName) \o ".weakcallableproxy",
     StrOf(BuiltinsName) \o ".weakproxy",
     StrOf(BuiltinsName) \o ".weakref",
     "os.stat_result", "os.statvfs_result",
     "numpy.broadcast", "numpy.busdaycalendar", "numpy.dtype",
     "numpy.flagsobj", "numpy.flatiter", "numpy.ndarray", "numpy.nditer"}

SKIP_TYPENAME_FOR_TYPES ==
    {"bool", "str", "bytes", "int", "float"}
    \cup (IF legacy THEN {"unicode", "long"} ELSE {})
STATICMETHOD_TYPES == {}
CLASSMETHOD_TYPES == {"builtin_function_or_method"}
PROPERTY_TYPES == {"getset_descriptor", "member_descriptor"}

\* what _get_typename returns: (need_imports, type_name), or that an
\* exception left it
TypenameResult(imports, name) ==
    [imports |-> imports, name |-> name, raised |-> FALSE]

\* the handler of _get_typename evaluates repr(value), and no name value is
\* bound there: NameError leaves the method before it warns or returns
TypenameRaised == [imports |-> <<>>, name |-> NoneV, raised |-> TRUE]

\* the fully qualified name is looked up in LIES_ABOUT_MODULE
LiesAbout(fullname) == StrOf(fullname) \in LIES_ABOUT_MODULE

\* _get_typename without the test of LIES_ABOUT_MODULE
GetTypename_TrustsOrigin(value_type, in_module) ==
    LET Named(o) ==
          IF o.tname = Raises THEN TypenameRaised
          ELSE
            LET type_name == Replace(o.tname, "-", "_")
                module == IF legacy /\ o.tmodule = <<"exceptions">>
                             /\ in_module = BuiltinsName
                          THEN BuiltinsName ELSE o.tmodule
                fullname == module \o <<".">> \o type_name
            IN  IF Truthy(module) /\ module # <<"<unknown>">>
                THEN IF module = in_module
                     THEN TypenameResult(<<module>>, type_name)
                     ELSE IF module = NotAString THEN TypenameRaised
                     ELSE TypenameResult(<<module>>, fullname)
                ELSE TypenameResult(<<>>, type_name)
    IN  Named(Obj(value_type))

\* MemberInfo._get_typename(value_type, in_module)
GetTypename(value_type, in_module) ==
    LET Named(o) ==
          IF o.tname = Raises THEN TypenameRaised
          ELSE
            LET type_name == Replace(o.tname, "-", "_")
                module == IF legacy /\ o.tmodule = <<"exceptions">>
                             /\ in_module = BuiltinsName
                          THEN BuiltinsName ELSE o.tmodule
                fullname == module \o <<".">> \o type_name
            IN  IF Truthy(module) /\ module # <<"<unknown>">>
                THEN IF module = in_module
                     THEN TypenameResult(<<module>>, type_name)
                     \* module + '.' + type_name raises TypeError
                     ELSE IF module = NotAString THEN TypenameRaised
                     ELSE IF LiesAbout(fullname)
                     THEN TypenameResult(<<in_module>>, type_name)
                     ELSE TypenameResult(<<module>>, fullname)
                ELSE TypenameResult(<<>>, type_name)
    IN  Named(Obj(value_type))

-----------------------------------------------------------------------------
(* The parser of the runtime (ast.parse), on the header "def <expr>: pass" *)
(* and on default-value expressions.  A node is [t, v, kids].              *)

NumTokens == {"0", "1", "2", "8"}
StrTokens == {"''", "'utf-8'"}
ConstTokens == {"None", "True", "False"}
PunctTokens == {"(", ")", "[", "]", "{", "}", ",", "=", ":", ".", "-", "|",
                "*", "**", " ", "\t", "\n", "\r", "<eof>"}

Keywords == {"def", "class", "lambda", "from", "in", "is", "not", "if", "for"}

IsIdent(c) ==
    c \notin NumTokens \cup StrTokens \cup ConstTokens \cup PunctTokens
              \cup Keywords

\* a chunk the regular expression \w+ matches
IsWord(c) == c \notin PunctTokens \cup StrTokens

Node(t, v, kids) == [t |-> t, v |-> v, kids |-> kids]
NoNode == Node("", "", <<>>)

Tok(ts, i) == IF i >= 1 /\ i <= Len(ts) THEN ts[i] ELSE "<eof>"

ParseFail == [ok |-> FALSE, node |-> NoNode, elts |-> <<>>, pos |-> 0]
ParseOk(node, pos) == [ok |-> TRUE, node |-> node, elts |-> <<>>, pos |-> pos]

RECURSIVE ParseExpr(_, _), ParseOrTail(_, _, _, _), ParseUnary(_, _),
          ParsePostfix(_, _, _), ParseElts(_, _, _, _)

\* expressions separated by commas up to the closing token
ParseElts(ts, i, close, acc) ==
    LET After(r) ==
          IF ~r.ok THEN ParseFail
          ELSE IF Tok(ts, r.pos) = ","
          THEN ParseElts(ts, r.pos + 1, close, Append(acc, r.node))
          ELSE IF Tok(ts, r.pos) = close
          THEN [ok |-> TRUE, node |-> NoNode, elts |-> Append(acc, r.node),
                pos |-> r.pos + 1]
          ELSE ParseFail
    IN  IF Tok(ts, i) = close
        THEN [ok |-> TRUE, node |-> NoNode, elts |-> acc, pos |-> i + 1]
        ELSE After(ParseExpr(ts, i))

ParseAtom(ts, i) ==
    LET c == Tok(ts, i)
        \* a parenthesised expression, a tuple or a list
        Bracketed(r) ==
          IF ~r.ok THEN ParseFail
          ELSE IF c = "["
          THEN ParseOk(Node("List", "", r.elts), r.pos)
          ELSE IF Len(r.elts) = 1 /\ Tok(ts, r.pos - 2) # ","
          THEN ParseOk(r.elts[1], r.pos)
          ELSE ParseOk(Node("Tuple", "", r.elts), r.pos)
    IN
    CASE c \in NumTokens -> ParseOk(Node("Num", c, <<>>), i + 1)
      [] c \in StrTokens -> ParseOk(Node("Str", c, <<>>), i + 1)
      [] c \in ConstTokens ->
            ParseOk(Node(IF legacy THEN "Name" ELSE "NameConstant", c, <<>>),
                    i + 1)
      [] c \in {"(", "["} ->
            Bracketed(ParseElts(ts, i + 1, IF c = "(" THEN ")" ELSE "]", <<>>))
      [] c = "{" ->
            IF Tok(ts, i + 1) = "}"
            THEN ParseOk(Node("Dict", "", <<>>), i + 2) ELSE ParseFail
      [] IsIdent(c) -> ParseOk(Node("Name", c, <<>>), i + 1)
      [] OTHER -> ParseFail

\* attribute access and calls after an atom
ParsePostfix(ts, i, node) ==
    LET Called(r) ==
          IF ~r.ok THEN ParseFail
          ELSE ParsePostfix(ts, r.pos, Node("Call", "", <<node>> \o r.elts))
    IN
    CASE Tok(ts, i) = "." ->
            IF IsIdent(Tok(ts, i + 1))
            THEN ParsePostfix(ts, i + 2,
                              Node("Attribute", Tok(ts, i + 1), <<node>>))
            ELSE ParseFail
      [] Tok(ts, i) = "(" -> Called(ParseElts(ts, i + 1, ")", <<>>))
      [] OTHER -> ParseOk(node, i)

ParseUnary(ts, i) ==
    LET Negated(r) ==
          IF ~r.ok THEN ParseFail
          ELSE ParseOk(Node("UnaryOp", "USub", <<r.node>>), r.pos)
        Primary(a) ==
          IF ~a.ok THEN ParseFail ELSE ParsePostfix(ts, a.pos, a.node)
    IN  IF Tok(ts, i) = "-" THEN Negated(ParseUnary(ts, i + 1))
        ELSE Primary(ParseAtom(ts, i))

\* the operand at i, joined by | to the operand left of it, and what follows
ParseOrTail(ts, i, left, hasLeft) ==
    LET Operand(r) ==
          IF ~r.ok THEN ParseFail
          ELSE IF Tok(ts, r.pos) = "|"
          THEN ParseOrTail(ts, r.pos + 1,
                           IF hasLeft
                           THEN Node("BinOp", "BitOr", <<left, r.node>>)
                           ELSE r.node, TRUE)
          ELSE ParseOk(IF hasLeft THEN Node("BinOp", "BitOr", <<left, r.node>>)
                       ELSE r.node, r.pos)
    IN  Operand(ParseUnary(ts, i))

ParseExpr(ts, i) == ParseOrTail(ts, i, NoNode, FALSE)

\* one parameter of a parsed header: its name and its default, if any
Param(name, hasDefault, default) ==
    [name |-> name, hasDefault |-> hasDefault, default |-> default]

ParamsFail == [ok |-> FALSE, args |-> <<>>, pos |-> 0]

\* the expression after the token lead at i, when that token is there
ParseAfter(ts, i, lead) ==
    IF Tok(ts, i) = lead THEN ParseExpr(ts, i + 1) ELSE ParseOk(NoNode, i)

RECURSIVE ParseParams(_, _, _, _, _)
\* the parameters after "(": args collects node.args.args with their
\* defaults (the parameters before a star); a parameter without a default
\* after one with a default is a SyntaxError
ParseParams(ts, i, acc, seenDefault, afterStar) ==
    LET c == Tok(ts, i)
        Named(ann, def) ==
          LET hasDef == Tok(ts, ann.pos) = "="
              acc2 == IF afterStar THEN acc
                      ELSE Append(acc, Param(c, hasDef, def.node))
          IN  IF ~ann.ok \/ (legacy /\ Tok(ts, i + 1) = ":") THEN ParamsFail
              ELSE IF ~def.ok THEN ParamsFail
              ELSE IF ~hasDef /\ seenDefault /\ ~afterStar THEN ParamsFail
              ELSE IF Tok(ts, def.pos) = ","
              THEN ParseParams(ts, def.pos + 1, acc2, seenDefault \/ hasDef,
                               afterStar)
              ELSE IF Tok(ts, def.pos) = ")"
              THEN [ok |-> TRUE, args |-> acc2, pos |-> def.pos + 1]
              ELSE ParamsFail
        Annotated(ann) == Named(ann, ParseAfter(ts, ann.pos, "="))
    IN
    CASE c = ")" -> [ok |-> TRUE, args |-> acc, pos |-> i + 1]
      [] c = "*" ->
            IF afterStar THEN ParamsFail
            ELSE IF IsIdent(Tok(ts, i + 1))
            THEN IF Tok(ts, i + 2) = ","
                 THEN ParseParams(ts, i + 3, acc, seenDefault, TRUE)
                 ELSE IF Tok(ts, i + 2) = ")"
                 THEN [ok |-> TRUE, args |-> acc, pos |-> i + 3]
                 ELSE ParamsFail
            ELSE IF ~legacy /\ Tok(ts, i + 1) = "," /\ IsIdent(Tok(ts, i + 2))
            THEN ParseParams(ts, i + 2, acc, seenDefault, TRUE)
            ELSE ParamsFail
      [] c = "**" ->
            IF IsIdent(Tok(ts, i + 1)) /\ Tok(ts, i + 2) = ")"
            THEN [ok |-> TRUE, args |-> acc, pos |-> i + 3]
            ELSE ParamsFail
      [] IsIdent(c) -> Annotated(ParseAfter(ts, i + 1, ":"))
      [] OTHER -> ParamsFail

RECURSIVE Tokens(_, _)
\* the tokens of a header: blanks dropped, line ends dropped inside the
\* parentheses only
Tokens(expr, inParen) ==
    IF expr = <<>> THEN <<>>
    ELSE IF Head(expr) \in {" ", "\t"}
            \/ (inParen /\ Head(expr) \in {"\n", "\r"})
    THEN Tokens(Tail(expr), inParen)
    ELSE <<Head(expr)>> \o Tokens(Tail(expr), inParen \/ Head(expr) = "(")

\* ast.parse("def " + expr + ": pass").body[0], when it is a FunctionDef
ParseDef(expr) ==
    LET Header(ts, r) ==
          IF IsIdent(Tok(ts, 1)) /\ Tok(ts, 2) = "(" /\ r.ok
             /\ r.pos = Len(ts) + 1
          THEN [ok |-> TRUE, name |-> Tok(ts, 1), args |-> r.args]
          ELSE [ok |-> FALSE, name |-> "", args |-> <<>>]
        Tokenized(ts) == Header(ts, ParseParams(ts, 3, <<>>, FALSE, FALSE))
    IN  Tokenized(Tokens(expr, FALSE))

\* Signature._parse_funcdef(expr, allow_name_mismatch): the node, or none;
\* a header of another name is refused with a warning
ParseFuncdef(selfname, expr, allow_name_mismatch) ==
    LET Checked(d) ==
          IF d.ok /\ (allow_name_mismatch \/ d.name = StrOf(selfname))
          THEN [ok |-> TRUE, name |-> d.name, args |-> d.args, warn |-> 0]
          ELSE [ok |-> FALSE, name |-> d.name, args |-> <<>>,
                warn |-> IF d.ok THEN 1 ELSE 0]
    IN  Checked(ParseDef(expr))

RECURSIVE FirstClose(_, _, _)
\* the index of the first ')' at which the nesting count is <= 0 (0: none)
FirstClose(expr, i, n) ==
    IF i > Len(expr) THEN 0
    ELSE IF expr[i] = ")"
    THEN IF n - 1 <= 0 THEN i ELSE FirstClose(expr, i + 1, n - 1)
    ELSE IF expr[i] = "(" THEN FirstClose(expr, i + 1, n + 1)
    ELSE FirstClose(expr, i + 1, n)

RECURSIVE LStrip(_)
LStrip(s) ==
    IF s # <<>> /\ Head(s) \in {"\r", "\n", "\t", " "} THEN LStrip(Tail(s))
    ELSE s

\* Signature._get_first_function_call(expr); NoneV when it returns nothing
GetFirstFunctionCall(expr) ==
    LET Upto(e, i) == IF i = 0 THEN NoneV ELSE SubSeq(e, 1, i)
        Stripped(e) == Upto(e, FirstClose(e, 1, 0))
    IN  IF ~Truthy(expr) \/ ~HasChar(expr, ")") THEN NoneV
        ELSE Stripped(LStrip(expr))

-----------------------------------------------------------------------------
(* Signature: rendering the parsed parameters *)

RECURSIVE Walk(_)
\* Signature.DefaultValueWriter.walk(node); NoneV when it returns None.
\* The writer has walk_Num, walk_Str and walk_NameConstant and nothing for
\* the Constant nodes of a newer runtime.
Walk(n) ==
    LET kid(i) == Walk(n.kids[i])
        elts == [i \in 1..Len(n.kids) |-> Walk(n.kids[i])]
        anyNone == \E i \in 1..Len(n.kids) : elts[i] = NoneV
    IN
    CASE n.t = "Name" -> <<n.v>>
      [] n.t \in {"Num", "Str", "NameConstant"} ->
            IF astConstant THEN NoneV ELSE <<n.v>>
      [] n.t = "Call" -> NoneV
      [] n.t = "Attribute" ->
            IF Truthy(kid(1)) THEN kid(1) \o <<".", n.v>> ELSE NoneV
      [] n.t = "List" ->
            IF anyNone THEN <<"[", "]">>
            ELSE <<"[">> \o Join(elts, <<",", " ">>) \o <<"]">>
      [] n.t = "Tuple" ->
            IF anyNone THEN <<"(", ")">>
            ELSE <<"(">> \o Join(elts, <<",", " ">>) \o <<")">>
      [] n.t = "Dict" -> <<"{", "}">>
      [] n.t = "BinOp" ->
            IF Truthy(kid(1)) /\ n.v = "BitOr" /\ Truthy(kid(2))
            THEN kid(1) \o <<"|">> \o kid(2) ELSE NoneV
      [] n.t = "UnaryOp" ->
            IF n.v = "USub" /\ Truthy(kid(1))
            THEN <<"-">> \o kid(1) ELSE NoneV
      [] OTHER -> NoneV

\* the marker _ast_arg_to_str keeps in seen_names once a default was written
DefaultSeen == " default_value"

\* the first free name among arg_id2, arg_id3, ...
Suffixed(arg_id, seen) ==
    LET free == {i \in 2..(Cardinality(seen) + 2) :
                    (arg_id \o ToString(i)) \notin seen}
        i == CHOOSE k \in free : \A l \in free : k <= l
    IN  arg_id \o ToString(i)

\* _ast_arg_to_str writing =None for no argument
AstArgToStr_NoMarker(arg, seen_names) ==
    LET Written(v, arg_id) ==
          LET default_value == IF v # NoneV THEN <<"=">> \o v ELSE <<>>
              seen2 == seen_names \cup {arg_id}
          IN  IF default_value # <<>>
              THEN [text |-> <<arg_id>> \o default_value,
                    seen |-> seen2 \cup {DefaultSeen}]
              ELSE [text |-> <<arg_id>>, seen |-> seen2]
    IN  Written(IF arg.hasDefault THEN Walk(arg.default) ELSE NoneV,
                IF arg.name \in seen_names
                THEN Suffixed(arg.name, seen_names) ELSE arg.name)

\* Signature._ast_arg_to_str(arg, default, seen_names): the text of the
\* argument and seen_names afterwards
AstArgToStr(arg, seen_names) ==
    LET Written(v, arg_id) ==
          LET default_value == IF v # NoneV THEN <<"=">> \o v ELSE <<>>
              seen2 == seen_names \cup {arg_id}
          IN  IF default_value # <<>>
              THEN [text |-> <<arg_id>> \o default_value,
                    seen |-> seen2 \cup {DefaultSeen}]
              ELSE IF DefaultSeen \in seen2
              THEN [text |-> <<arg_id, "=", "None">>, seen |-> seen2]
              ELSE [text |-> <<arg_id>>, seen |-> seen2]
    IN  Written(IF arg.hasDefault THEN Walk(arg.default) ELSE NoneV,
                IF arg.name \in seen_names
                THEN Suffixed(arg.name, seen_names) ELSE arg.name)

RECURSIVE AstArgsFrom(_, _)
AstArgsFrom(args, seen_names) ==
    LET Then(r) == <<r.text>> \o AstArgsFrom(Tail(args), r.seen)
    IN  IF args = <<>> THEN <<>>
        ELSE Then(AstArgToStr(Head(args), seen_names))

\* Signature._ast_args_to_list(node)
AstArgsToList(args) == AstArgsFrom(args, {})

RECURSIVE FirstMismatch(_, _, _)
\* the first i with defaults[i] != args[i], 'cls' against 'type' passing
\* for equal (0: none)
FirstMismatch(defaults, args, i) ==
    IF i > Len(defaults) \/ i > Len(args) THEN 0
    ELSE IF StrOf(defaults[i]) = "cls" /\ StrOf(args[i]) = "type"
    THEN FirstMismatch(defaults, args, i + 1)
    ELSE IF StrOf(defaults[i]) # StrOf(args[i]) THEN i
    ELSE FirstMismatch(defaults, args, i + 1)

\* _insert_default_arguments putting defaults in at the mismatch and keeping
\* the arguments before it (args[i:i] = defaults)
InsertDefaultArguments_KeepsHead(args, defaults) ==
    LET From(i) == IF i = 0 THEN args
                   ELSE SubSeq(args, 1, i - 1) \o defaults
                        \o SubSeq(args, i, Len(args))
    IN  IF Len(args) < Len(defaults) THEN defaults \o args
        ELSE From(FirstMismatch(defaults, args, 1))

\* Signature._insert_default_arguments(args, defaults): args afterwards
InsertDefaultArguments(args, defaults) ==
    LET From(i) == IF i = 0 THEN args
                   ELSE defaults \o SubSeq(args, i, Len(args))
    IN  IF Len(args) < Len(defaults) THEN defaults \o args
        ELSE From(FirstMismatch(defaults, args, 1))

\* name + '(' + ', '.join(args) + ')'
SigText(name, args) == name \o <<"(">> \o Join(args, <<",", " ">>) \o <<")">>

-----------------------------------------------------------------------------
(* Signature: the textual repairs of a documented call *)

\* re.sub(r'[\[\]]', '', doc)
StripBrackets(doc) == SelectSeq(doc, LAMBDA c : c \notin {"[", "]"})

\* doc starts with "X.y("
HasOwnerPrefix(doc) ==
    /\ Len(doc) >= 4
    /\ IsWord(doc[1]) /\ doc[2] = "." /\ IsWord(doc[3]) /\ doc[4] = "("

\* re.sub(r'^(\w+)\.(\w+)\(', r'\2(self : \1, ', doc)
TypedSelf(doc) ==
    IF HasOwnerPrefix(doc)
    THEN <<doc[3], "(", "self", " ", ":", " ", doc[1], ",", " ">>
         \o SubSeq(doc, 5, Len(doc))
    ELSE doc

\* re.sub(r'^(\w+)\.(\w+)\(', r'\2(self, ', doc)
BareSelf(doc) ==
    IF HasOwnerPrefix(doc)
    THEN <<doc[3], "(", "self", ",", " ">> \o SubSeq(doc, 5, Len(doc))
    ELSE doc

\* where the match of \=.+?([,\)]) that starts at the '=' at i ends (0: no
\* match): the first ',' or ')' at least one character later, on its line
DefaultEnd(doc, i) ==
    LET ends == {j \in (i + 2)..Len(doc) :
                    /\ doc[j] \in {",", ")"}
                    /\ \A k \in (i + 1)..(j - 1) : doc[k] # "\n"}
    IN  IF ends = {} THEN 0 ELSE CHOOSE j \in ends : \A k \in ends : j <= k

RECURSIVE StripDefaultsFrom(_, _)
StripDefaultsFrom(doc, i) ==
    LET Matched(j) ==
          IF doc[i] = "=" /\ j # 0
          THEN <<doc[j]>> \o StripDefaultsFrom(doc, j + 1)
          ELSE <<doc[i]>> \o StripDefaultsFrom(doc, i + 1)
    IN  IF i > Len(doc) THEN <<>> ELSE Matched(DefaultEnd(doc, i))

\* re.sub(r'\=.+?([,\)])', r'\1', doc)
StripDefaults(doc) == StripDefaultsFrom(doc, 1)

-----------------------------------------------------------------------------
(* The tables of known protocols.  The model keeps the entries below of    *)
(* each table, with the texts the source gives them.                       *)

\* a value of KNOWN_RESTYPES: a string, a list of strings or None
RStr(s) == [kind |-> "str", s |-> s, l |-> <<>>]
RList(l) == [kind |-> "list", s |-> <<>>, l |-> l]
RNone == [kind |-> "none", s |-> <<>>, l |-> <<>>]

\* bool(v) of such a value
RTruthy(v) == (v.kind = "str" /\ v.s # <<>>) \/ (v.kind = "list" /\ v.l # <<>>)

\* Signature.KNOWN_RESTYPES as the class body defines it
KnownRestypesBase ==
    [k \in {"__add__", "__call__", "__getitem__", "__init__", "__iter__",
            "__next__", "__reduce__", "__round__", "__truediv__"} |->
        CASE k = "__add__" -> RStr(<<"__T", "(", ")">>)
          [] k = "__call__" -> RStr(<<"Any">>)
          [] k = "__getitem__" -> RStr(<<"Any">>)
          [] k = "__init__" -> RStr(<<>>)
          [] k = "__iter__" -> RStr(<<"__T", "(", ")">>)
          [] k = "__next__" -> RStr(<<"Any">>)
          [] k = "__reduce__" -> RList(<< <<"''">>, <<"(", ")">> >>)
          [] k = "__round__" -> RStr(<<"__T", "(", ")">>)
          [] OTHER -> RStr(<<"0.0">>)]

\* Signature.KNOWN_ARGSPECS as the class body defines it
KnownArgspecsBase ==
    [k \in {"__getitem__", "__init_subclass__", "__round__"} |->
        CASE k = "__getitem__" -> <<"(", "self", ",", " ", "index", ")">>
          [] k = "__init_subclass__" -> <<"(", "cls", ")">>
          [] OTHER -> <<"(", "self", ",", " ", "ndigits", "=", "0", ")">>]

\* the entries add_builtin_objects puts into KNOWN_RESTYPES
BuiltinRestypes ==
    [k \in {"__Type__.__call__", "__Bytes__.__getitem__",
            "__Tuple__.__iter__", "__BytesIterator__.__next__",
            "__UnicodeIterator__.__next__", "__truediv__",
            "__List__.append", "copy", "count", "__Type__.mro",
            "__Set__.pop"} |->
        CASE k = "__Type__.__call__" -> RStr(<<"cls", "(", ")">>)
          [] k = "__Bytes__.__getitem__" -> RStr(<<"__T", "(", ")">>)
          [] k = "__Tuple__.__iter__" ->
                RStr(<<"__T", "upleIterator__", "(", ")">>)
          [] k = "__BytesIterator__.__next__" -> RStr(<<"0">>)
          [] k = "__UnicodeIterator__.__next__" ->
                RStr(<<"__Unicode__", "(", ")">>)
          [] k = "__truediv__" -> RStr(<<"Float", "(", ")">>)
          [] k = "__List__.append" -> RStr(<<"None">>)
          [] k = "copy" -> RStr(<<"__T", "(", ")">>)
          [] k = "count" -> RStr(<<"0">>)
          [] k = "__Type__.mro" ->
                RStr(<<"[", "__T", "ype__", "(", ")", "]">>)
          [] OTHER -> RStr(<<"Any">>)]

\* the entries add_builtin_objects puts into KNOWN_ARGSPECS
BuiltinArgspecs ==
    [k \in {"__Type__.__call__", "__Dict__.__getitem__", "__Int__.__round__",
            "__List__.append", "copy", "count", "__Bytes__.count"} |->
        CASE k = "__Type__.__call__" ->
                <<"(", "cls", ",", " ", "*", "args", ",", " ", "**",
                  "kwargs", ")">>
          [] k = "__Dict__.__getitem__" ->
                <<"(", "self", ",", " ", "key", ")">>
          [] k = "__Int__.__round__" ->
                <<"(", "self", ",", " ", "ndigits", "=", "0", ")">>
          [] k = "__List__.append" -> <<"(", "self", ",", " ", "value", ")">>
          [] k = "copy" -> <<"(", "self", ")">>
          [] k = "count" -> <<"(", "self", ",", " ", "x", ")">>
          [] OTHER ->
                <<"(", "self", ",", " ", "sub", ",", " ", "start", "=", "0",
                  ",", " ", "end", "=", "-", "1", ")">>]

\* what add_builtin_objects puts into KNOWN_RESTYPES on a legacy runtime
LegacyRestypes ==
    [k \in {"__BytesIterator__.__next__", "__BytesIterator__.next",
            "__UnicodeIterator__.__next__", "__UnicodeIterator__.next",
            "__Generator__.send"} |->
        CASE k = "__BytesIterator__.__next__" -> RNone
          [] k = "__BytesIterator__.next" -> RStr(<<"b''">>)
          [] k = "__UnicodeIterator__.__next__" -> RNone
          [] k = "__UnicodeIterator__.next" -> RStr(<<"u''">>)
          [] OTHER -> RStr(<<"self", ".", "next", "(", ")">>)]

\* what add_builtin_objects puts into KNOWN_ARGSPECS on a legacy runtime
LegacyArgspecs ==
    [k \in {"__BytesIterator__.next", "__UnicodeIterator__.next"} |->
        <<"(", "self", ")">>]

\* table.get(key) of KNOWN_RESTYPES
RestypeGet(table, key) == IF key \in DOMAIN table THEN table[key] ELSE RNone

\* table.get(key) of KNOWN_ARGSPECS
ArgspecGet(table, key) == IF key \in DOMAIN table THEN table[key] ELSE NoneV

\* the key scope + '.' + name
DotKey(scope, name) == StrOf(scope) \o "." \o StrOf(name)

-----------------------------------------------------------------------------
(* Signature *)

\* the lookup of Signature._init_argspec_fromknown: the spec or NoneV
KnownArgspec(table, name, scope, scope_alias) ==
    LET s1 == IF Truthy(scope_alias)
              THEN ArgspecGet(table, DotKey(scope_alias, name)) ELSE NoneV
        s2 == IF Truthy(scope) /\ ~Truthy(s1)
              THEN ArgspecGet(table, DotKey(scope, name)) ELSE s1
        s3 == IF ~Truthy(s2) THEN ArgspecGet(table, StrOf(name)) ELSE s2
    IN  IF Truthy(s3) THEN s3 ELSE NoneV

\* Signature._init_argspec_fromknown(defaults, scope_alias)
InitArgspecFromKnown(table, name, scope, scope_alias) ==
    LET Found(spec) == IF spec = NoneV THEN NoneV ELSE name \o spec
    IN  Found(KnownArgspec(table, name, scope, scope_alias))

\* the lookup that tries the bare name before the qualified ones
KnownRestype_BareFirst(table, name, scope, scope_alias) ==
    LET r1 == RestypeGet(table, StrOf(name))
        r2 == IF Truthy(scope_alias) /\ ~RTruthy(r1)
              THEN RestypeGet(table, DotKey(scope_alias, name)) ELSE r1
        r3 == IF Truthy(scope) /\ ~RTruthy(r2)
              THEN RestypeGet(table, DotKey(scope, name)) ELSE r2
    IN  IF RTruthy(r3) THEN r3 ELSE RNone

\* the lookup of Signature._init_restype_fromknown: the value or RNone
KnownRestype(table, name, scope, scope_alias) ==
    LET r1 == IF Truthy(scope_alias)
              THEN RestypeGet(table, DotKey(scope_alias, name)) ELSE RNone
        r2 == IF Truthy(scope) /\ ~RTruthy(r1)
              THEN RestypeGet(table, DotKey(scope, name)) ELSE r1
        r3 == IF ~RTruthy(r2) THEN RestypeGet(table, StrOf(name)) ELSE r2
    IN  IF RTruthy(r3) THEN r3 ELSE RNone

\* Signature._init_restype_fromknown(scope_alias)
InitRestypeFromKnown(table, name, scope, scope_alias) ==
    LET Found(restype) ==
          IF restype.kind = "none" THEN NoneV
          ELSE IF restype.kind = "list"
          THEN <<"return", " ">>
               \o Join(restype.l, <<";", " ", "return", " ">>)
          ELSE <<"return", " ">> \o restype.s
    IN  Found(KnownRestype(table, name, scope, scope_alias))

\* Signature._init_restype_fromsignature(); callable is the object as Obj
\* describes it, here and below
InitRestypeFromSignature(callable) ==
    IF callable.hasSig THEN <<"pass">> ELSE NoneV

\* str(sig) of the signature _init_argspec_fromsignature rebuilds: a default
\* that is no literal becomes None, a positional-only parameter becomes
\* positional-or-keyword (so no '/' is written)
SigStr(params) ==
    LET Shown(p) ==
          (IF p.kind = "va" THEN <<"*">>
           ELSE IF p.kind = "kw" THEN <<"**">> ELSE <<>>)
          \o <<p.name>>
          \o (IF p.default = NoneV THEN <<>>
              ELSE IF p.literal THEN <<"=">> \o p.default
              ELSE <<"=", "None">>)
    IN  <<"(">> \o Join([i \in 1..Len(params) |-> Shown(params[i])],
                        <<",", " ">>) \o <<")">>

\* Signature._init_argspec_fromsignature(defaults), which __init__ does not
\* call (the call is commented out)
InitArgspecFromSignature(name, callable) ==
    IF ~callable.hasSig THEN NoneV ELSE name \o SigStr(callable.sig)

\* Signature._init_argspec_fromargspec(defaults)
InitArgspecFromArgspec(name, callable, defaults) ==
    LET a == callable.argspec
        argn == a.args
                \o (IF Truthy(a.varargs) THEN << <<"*">> \o a.varargs >>
                    ELSE <<>>)
                \o (IF Truthy(a.varkw) THEN << <<"**">> \o a.varkw >>
                    ELSE <<>>)
    IN  IF ~a.ok THEN NoneV
        ELSE SigText(name, InsertDefaultArguments(argn, defaults))

\* the repairs with the stripping of the defaults tried first
Repairs_DefaultsStrippedFirst(call) ==
    LET From(doc) ==
          <<StripDefaults(doc), call, doc, TypedSelf(doc), BareSelf(doc)>>
    IN  From(StripBrackets(call))

\* the repairs of _init_argspec_fromdocstring in the order it tries them,
\* on the call extracted from the text
Repairs(call) ==
    LET From(doc) ==
          <<call, doc, TypedSelf(doc), BareSelf(doc), StripDefaults(doc)>>
    IN  From(StripBrackets(call))

\* the first repair _parse_funcdef accepts (0: none)
FirstAccepted(parsed) ==
    LET good == {i \in 1..Len(parsed) : parsed[i].ok}
    IN  IF good = {} THEN 0 ELSE CHOOSE i \in good : \A j \in good : i <= j

RECURSIVE SumTo(_, _)
SumTo(f, n) == IF n = 0 THEN 0 ELSE f[n] + SumTo(f, n - 1)

\* Signature._init_argspec_fromdocstring(defaults, doc): the signature text
\* (NoneV when it returns nothing) and the warnings raised on the way
InitArgspecFromDocstring(name, callable, defaults, doc) ==
    LET allow == Truthy(doc)
        \* parsed[i] is what _parse_funcdef makes of the i-th repair
        Chosen(parsed, k) ==
          LET warned == SumTo([i \in 1..Len(parsed) |-> parsed[i].warn],
                              IF k = 0 THEN Len(parsed) ELSE k)
          IN  IF k = 0 THEN [sig |-> NoneV, warn |-> warned]
              ELSE [sig |-> SigText(name,
                               InsertDefaultArguments(
                                   AstArgsToList(parsed[k].args), defaults)),
                    warn |-> warned]
        Parsed(parsed) == Chosen(parsed, FirstAccepted(parsed))
        Repaired(r) ==
          Parsed([i \in 1..Len(r) |-> ParseFuncdef(name, r[i], allow)])
        Called(call) ==
          IF ~Truthy(call) THEN [sig |-> NoneV, warn |-> 0]
          ELSE Repaired(Repairs(call))
        Documented(text) ==
          IF text = NoneV THEN [sig |-> NoneV, warn |-> 0]
          ELSE Called(GetFirstFunctionCall(text))
    IN  Documented(IF allow THEN doc ELSE callable.doc)

\* s.replace(a, b) for a chunk a and a string b
RECURSIVE ReplaceChunk(_, _, _)
ReplaceChunk(s, a, b) ==
    IF s = <<>> THEN <<>>
    ELSE (IF Head(s) = a THEN b ELSE <<Head(s)>>)
         \o ReplaceChunk(Tail(s), a, b)

NoSignature ==
    [present |-> FALSE, name |-> <<>>, fullsig |-> <<>>, restype |-> <<>>,
     decorators |-> <<>>, warn |-> 0]

\* Signature.__init__ asking the documentation of the callable before the
\* tables of known protocols
Signature_DocBeforeKnown(restypes, argspecs, name, callable, scope, scope_alias, decorators, module_doc) ==
    LET isStatic == \E i \in 1..Len(decorators) : decorators[i] = "@staticmethod"
        isClass == \E i \in 1..Len(decorators) : decorators[i] = "@classmethod"
        def_arg == IF isClass THEN <<"cls">> ELSE <<"self">>
        defaults == IF Truthy(scope) /\ ~isStatic THEN <<def_arg>> ELSE <<>>
        isCtor == StrOf(name) \in {"__init__", "__new__"} /\ Truthy(module_doc)
        isProp == ~isCtor /\ ~callable.callable /\ callable.hasGet
        bare == SigText(name, defaults)
        \* fromDocstring[d] is self._init_argspec_fromdocstring(defaults, d)
        Made(fromDocstring, fromArgspec, fromKnown, restype0) ==
          LET first == IF isCtor THEN fromDocstring[module_doc].sig
                       ELSE IF isProp THEN bare ELSE NoneV
              fromDoc == fromDocstring[NoneV]
              fullsig == IF Truthy(first) THEN first
                         ELSE IF Truthy(fromArgspec) THEN fromArgspec
                         ELSE IF Truthy(fromDoc.sig) THEN fromDoc.sig
                         ELSE IF Truthy(fromKnown) THEN fromKnown
                         ELSE bare
              warn == (IF isCtor THEN fromDocstring[module_doc].warn ELSE 0)
                      + (IF ~Truthy(first) /\ ~Truthy(fromArgspec)
                         THEN fromDoc.warn ELSE 0)
              restype1 == IF Truthy(scope)
                          THEN ReplaceChunk(restype0, "__T", scope)
                          ELSE restype0
              restype == IF StrOf(restype1) \in {"Any", "Unknown"}
                         THEN <<"pass">> ELSE restype1
          IN  [present |-> TRUE, name |-> name, fullsig |-> fullsig,
               restype |-> restype,
               decorators |-> IF isProp THEN <<"@property">> ELSE decorators,
               warn |-> warn]
        \* self._init_restype_fromsignature() or
        \* self._init_restype_fromknown(scope_alias) or 'pass'
        Restype(fromSig, fromKnownRes) ==
          IF Truthy(fromSig) THEN fromSig
          ELSE IF Truthy(fromKnownRes) THEN fromKnownRes
          ELSE <<"pass">>
    IN  Made([d \in {module_doc, NoneV} |->
                 InitArgspecFromDocstring(name, callable, defaults, d)],
             InitArgspecFromArgspec(name, callable, defaults),
             InitArgspecFromKnown(argspecs, name, scope, scope_alias),
             Restype(InitRestypeFromSignature(callable),
                     InitRestypeFromKnown(restypes, name, scope, scope_alias)))

\* Signature.__init__(name, callable, scope, None, scope_alias, decorators,
\* module_doc), with the tables of known protocols as they are now
Signature(restypes, argspecs, name, callable, scope, scope_alias, decorators, module_doc) ==
    LET isStatic == \E i \in 1..Len(decorators) : decorators[i] = "@staticmethod"
        isClass == \E i \in 1..Len(decorators) : decorators[i] = "@classmethod"
        def_arg == IF isClass THEN <<"cls">> ELSE <<"self">>
        defaults == IF Truthy(scope) /\ ~isStatic THEN <<def_arg>> ELSE <<>>
        isCtor == StrOf(name) \in {"__init__", "__new__"} /\ Truthy(module_doc)
        isProp == ~isCtor /\ ~callable.callable /\ callable.hasGet
        bare == SigText(name, defaults)
        \* fromDocstring[d] is self._init_argspec_fromdocstring(defaults, d)
        Made(fromDocstring, fromArgspec, fromKnown, restype0) ==
          LET first == IF isCtor THEN fromDocstring[module_doc].sig
                       ELSE IF isProp THEN bare ELSE NoneV
              fromDoc == fromDocstring[NoneV]
              fullsig == IF Truthy(first) THEN first
                         ELSE IF Truthy(fromArgspec) THEN fromArgspec
                         ELSE IF Truthy(fromKnown) THEN fromKnown
                         ELSE IF Truthy(fromDoc.sig) THEN fromDoc.sig
                         ELSE bare
              warn == (IF isCtor THEN fromDocstring[module_doc].warn ELSE 0)
                      + (IF ~Truthy(first) /\ ~Truthy(fromArgspec)
                            /\ ~Truthy(fromKnown) THEN fromDoc.warn ELSE 0)
              restype1 == IF Truthy(scope)
                          THEN ReplaceChunk(restype0, "__T", scope)
                          ELSE restype0
              restype == IF StrOf(restype1) \in {"Any", "Unknown"}
                         THEN <<"pass">> ELSE restype1
          IN  [present |-> TRUE, name |-> name, fullsig |-> fullsig,
               restype |-> restype,
               decorators |-> IF isProp THEN <<"@property">> ELSE decorators,
               warn |-> warn]
        \* self._init_restype_fromsignature() or
        \* self._init_restype_fromknown(scope_alias) or 'pass'
        Restype(fromSig, fromKnownRes) ==
          IF Truthy(fromSig) THEN fromSig
          ELSE IF Truthy(fromKnownRes) THEN fromKnownRes
          ELSE <<"pass">>
    IN  Made([d \in {module_doc, NoneV} |->
                 InitArgspecFromDocstring(name, callable, defaults, d)],
             InitArgspecFromArgspec(name, callable, defaults),
             InitArgspecFromKnown(argspecs, name, scope, scope_alias),
             Restype(InitRestypeFromSignature(callable),
                     InitRestypeFromKnown(restypes, name, scope, scope_alias)))

-----------------------------------------------------------------------------
(* MemberInfo *)

EntryDefault ==
    [name |-> <<>>, value |-> "None", literal |-> NoneV, members |-> <<>>,
     need_imports |-> <<>>, type_name |-> NoneV, scope_name |-> NoneV,
     bases |-> <<>>, signature |-> NoSignature, documentation |-> NoneV,
     alias |-> NoneV]

\* what constructing a MemberInfo gives: the object, or the exception that
\* left __init__, and the warnings raised on the way
Built(entry, warn) == [raised |-> FALSE, entry |-> entry, warn |-> warn]
BuildRaised(warn) == [raised |-> TRUE, entry |-> EntryDefault, warn |-> warn]

RECURSIVE BasesFrom_KeepNamesakes(_, _, _, _)
\* the loop over __bases__ without the test that drops a base of the class's
\* own name
BasesFrom_KeepNamesakes(bases, type_name, module, acc) ==
    LET Next(r) ==
          LET skip == ~Truthy(r.name)
          IN  IF r.raised THEN [acc EXCEPT !.raised = TRUE]
              ELSE BasesFrom_KeepNamesakes(Tail(bases), type_name, module,
                        [bases |-> IF skip THEN acc.bases
                                   ELSE Append(acc.bases, r.name),
                         imports |-> IF skip THEN acc.imports
                                     ELSE acc.imports \o r.imports,
                         raised |-> FALSE])
    IN  IF bases = <<>> THEN acc
        ELSE Next(GetTypename(Head(bases), module))

RECURSIVE BasesFrom(_, _, _, _)
\* the loop over __bases__ of MemberInfo.__init__: the base names kept, the
\* imports they add, and whether _get_typename raised on a base
BasesFrom(bases, type_name, module, acc) ==
    LET Next(r) ==
          LET skip == \/ ~Truthy(r.name)
                      \/ /\ StrOf(r.name) = StrOf(type_name)
                         /\ \E i \in 1..Len(r.imports) : r.imports[i] = module
          IN  IF r.raised THEN [acc EXCEPT !.raised = TRUE]
              ELSE BasesFrom(Tail(bases), type_name, module,
                        [bases |-> IF skip THEN acc.bases
                                   ELSE Append(acc.bases, r.name),
                         imports |-> IF skip THEN acc.imports
                                     ELSE acc.imports \o r.imports,
                         raised |-> FALSE])
    IN  IF bases = <<>> THEN acc
        ELSE Next(GetTypename(Head(bases), module))

\* the nan test alone, without the lookup in VALUE_REPR_FIX
ReprFix_NanOnly(o) ==
    IF o.fix = <<"nan">> THEN <<"float", "(", "'nan'", ")">> ELSE NoneV

\* the literal VALUE_REPR_FIX and the nan test give the value o (NoneV: none)
ReprFix(o) ==
    IF o.fix = <<"nan">> THEN <<"float", "(", "'nan'", ")">>
    ELSE IF o.fix = <<"inf">> THEN <<"float", "(", "'inf'", ")">>
    ELSE IF o.fix = <<"-inf">> THEN <<"float", "(", "'-inf'", ")">>
    ELSE NoneV

\* MemberInfo.__init__ for the value o (value names it), given the Signature
\* sig it builds when the value is callable or an accessor
Classified(name, value, o, literal, module, alias, sig) ==
    LET base == [EntryDefault EXCEPT
                    !.name = IF Truthy(name) THEN Replace(name, "-", "_")
                             ELSE name,
                    !.value = value, !.literal = literal, !.alias = alias,
                    !.documentation = o.doc]
        typed == o.cls \notin SKIP_TYPENAME_FOR_TYPES
        accessor == o.cls \in PROPERTY_TYPES
        fix == ReprFix(o)
        \* a type whose name has no dot: scope_name, type_name and the bases
        Based(tn, bs) ==
          IF bs.raised THEN BuildRaised(0)
          ELSE Built([base EXCEPT !.scope_name = tn.name,
                                  !.type_name = tn.name, !.bases = bs.bases,
                                  !.need_imports = bs.imports], 0)
        \* tn is the typename of the value when it is a type and of its type
        \* when it is not
        Resolved(tn) ==
          IF o.isType
          THEN IF tn.raised THEN BuildRaised(0)
               ELSE IF HasChar(tn.name, ".")
               THEN Built([base EXCEPT !.need_imports = tn.imports,
                                       !.literal = tn.name], 0)
               ELSE Based(tn, BasesFrom(o.bases, tn.name, module,
                                        [bases |-> <<>>,
                                         imports |-> tn.imports,
                                         raised |-> FALSE]))
          ELSE IF o.callable
          THEN Built([base EXCEPT !.signature = sig], sig.warn)
          ELSE IF value # "None"
          THEN IF typed /\ tn.raised
               THEN BuildRaised(IF accessor THEN sig.warn ELSE 0)
               ELSE Built([base EXCEPT
                         !.signature = IF accessor THEN sig ELSE NoSignature,
                         !.need_imports = IF typed THEN tn.imports ELSE <<>>,
                         !.type_name = IF typed THEN tn.name ELSE NoneV,
                         !.literal = IF fix # NoneV THEN fix ELSE literal],
                     IF accessor THEN sig.warn ELSE 0)
          ELSE Built([base EXCEPT !.literal = IF Truthy(literal) THEN literal
                                              ELSE <<"None">>], 0)
    IN  Resolved(GetTypename(IF o.isType THEN value ELSE o.cls, module))

\* MemberInfo(name, value, literal, scope, module, alias, module_doc,
\* scope_alias), with the tables of known protocols as they are now
MemberInfo(restypes, argspecs, name, value, literal, scope, module, alias, module_doc, scope_alias) ==
    LET Of(o) ==
          Classified(name, value, o, literal, module, alias,
                     Signature(restypes, argspecs, name, o, scope, scope_alias,
                               IF ~o.callable \/ ~Truthy(scope) THEN <<>>
                               ELSE IF o.cls \in STATICMETHOD_TYPES
                               THEN <<"@staticmethod">>
                               ELSE IF o.cls \in CLASSMETHOD_TYPES
                               THEN <<"@classmethod">> ELSE <<>>,
                               IF o.callable THEN module_doc ELSE NoneV))
    IN  Of(Obj(value))

\* MemberInfo(name, value, literal=literal, module=module, alias=alias) for
\* a value that is neither callable nor an accessor: no Signature is built
PlainBuilt(name, value, literal, module, alias) ==
    Classified(name, value, Obj(value), literal, module, alias, NoSignature)

\* the same where nothing fails: the entries the module builds of its own
\* values
PlainInfo(name, value, literal, module, alias) ==
    PlainBuilt(name, value, literal, module, alias).entry

\* MemberInfo.NO_VALUE standing in a member list
Sentinel == [EntryDefault EXCEPT !.value = "<NO_VALUE>"]

-----------------------------------------------------------------------------
(* MemberInfo.as_str: the lines of an entry *)

\* repr(text) of a documentation string
ReprText(text) == <<"'">> \o Replace(text, "\n", "\\n") \o <<"'">>

Indent(indent, lines) == [i \in 1..Len(lines) |-> indent \o lines[i]]

RECURSIVE Concat(_)
Concat(seqs) == IF seqs = <<>> THEN <<>> ELSE Head(seqs) \o Concat(Tail(seqs))

RECURSIVE Unique(_, _)
\* the decorators in their order, each once (seen_decorators)
Unique(decorators, seen) ==
    IF decorators = <<>> THEN <<>>
    ELSE IF Head(decorators) \in seen THEN Unique(Tail(decorators), seen)
    ELSE <<Head(decorators)>>
         \o Unique(Tail(decorators), seen \cup {Head(decorators)})

\* _lines_with_signature without the empty line that closes the definition
LinesWithSignature_NoEmptyLine(e) ==
    Unique(e.signature.decorators, {})
    \o << "def " \o StrOf(e.signature.fullsig) \o ":" >>
    \o (IF Truthy(e.documentation)
        THEN << "    " \o StrOf(ReprText(e.documentation)) >> ELSE <<>>)
    \o (IF Truthy(e.signature.restype)
        THEN << "    " \o StrOf(e.signature.restype) >> ELSE << "    pass" >>)

\* MemberInfo._lines_with_signature()
LinesWithSignature(e) ==
    Unique(e.signature.decorators, {})
    \o << "def " \o StrOf(e.signature.fullsig) \o ":" >>
    \o (IF Truthy(e.documentation)
        THEN << "    " \o StrOf(ReprText(e.documentation)) >> ELSE <<>>)
    \o (IF Truthy(e.signature.restype)
        THEN << "    " \o StrOf(e.signature.restype) >> ELSE << "    pass" >>)
    \o << "" >>

RECURSIVE AsStr(_, _)
\* MemberInfo._lines_with_members()
LinesWithMembers(e) ==
    << IF e.bases # <<>>
       THEN "class " \o StrOf(e.name) \o "(" \o StrOf(Join(e.bases, <<",">>))
            \o "):"
       ELSE "class " \o StrOf(e.name) \o ":" >>
    \o (IF Truthy(e.documentation)
        THEN << "    " \o StrOf(ReprText(e.documentation)) >> ELSE <<>>)
    \o (IF e.members # <<>>
        THEN Concat([i \in 1..Len(e.members) |->
                        IF e.members[i] = Sentinel THEN <<>>
                        ELSE AsStr(e.members[i], "    ")])
        ELSE << "    pass" >>)
    \o << "" >>

\* MemberInfo.as_str(indent), line by line
AsStr(e, indent) ==
    IF Truthy(e.literal)
    THEN << indent \o StrOf(e.name) \o " = " \o StrOf(e.literal) >>
    ELSE IF e.members # <<>> THEN Indent(indent, LinesWithMembers(e))
    ELSE IF e.signature.present THEN Indent(indent, LinesWithSignature(e))
    ELSE IF e.type_name # NoneV
    THEN << indent \o StrOf(e.name) \o " = " \o StrOf(e.type_name) \o "()" >>
    ELSE IF e.value # "None"
    THEN << indent \o StrOf(e.name) \o " = " \o StrOf(Obj(e.value).repr) >>
    ELSE << indent \o StrOf(e.name) >>

-----------------------------------------------------------------------------
(* ScrapeState *)

\* keyword.kwlist of the runtime
PyKeywords ==
    Keywords \cup (IF legacy THEN {"print"} ELSE {"None", "True", "False"})

\* the documentation of the scanned module
ModuleDoc == <<"mod", "(", "cfg", ")", " ", "tools">>

\* what dir() and getattr() give of the builtins module
BuiltinsAttrs ==
    <<Attr(<<"KeyError">>, "KeyError"), Attr(<<"None">>, "None"),
      Attr(<<"__debug__">>, "int1"), Attr(<<"int">>, "int"),
      Attr(<<"object">>, "object"), Attr(<<"print">>, "copy")>>

\* the object a scan walks: the module under its name, or a member's value
Scanned(id) ==
    IF id = "mod"
    THEN [attrs |-> nsAttrs, doc |-> ModuleDoc, truthy |-> TRUE] @@ DefaultObj
    ELSE IF id = "builtins"
    THEN [attrs |-> BuiltinsAttrs, truthy |-> TRUE] @@ DefaultObj
    ELSE Obj(id)

\* an entry of a substitution table: a MemberInfo, or None
Subst(entry) == [present |-> TRUE, entry |-> entry]
SubstNone == [present |-> FALSE, entry |-> EntryDefault]

MODULE_MEMBER_SUBSTITUTE ==
    [k \in {"__builtins__", "__spec__", "__loader__"} |->
        IF k = "__builtins__"
        THEN Subst(PlainInfo(<<"__builtins__">>, "emptydict", NoneV, NoneV,
                             NoneV))
        ELSE SubstNone]

CLASS_MEMBER_SUBSTITUTE ==
    [k \in {"__bases__", "__mro__", "__dict__", "__doc__", "__new__"} |->
        IF k \in {"__bases__", "__mro__", "__dict__"}
        THEN Subst(PlainInfo(<<k>>, IF k = "__dict__" THEN "emptydict"
                                    ELSE "emptytuple", NoneV, NoneV, NoneV))
        ELSE SubstNone]

\* ScrapeState._should_add_value(value): whether to add it, and whether
\* reading its type warned
ShouldAddValue(value) ==
    LET Typed(value_type, t) ==
          IF t.tname = Raises THEN [add |-> FALSE, warn |-> 1]
          ELSE IF t.tmodule = BuiltinsName /\ t.tname = <<"CompiledLib">>
          THEN [add |-> TRUE, warn |-> 0]
          ELSE IF value_type = "module" THEN [add |-> FALSE, warn |-> 0]
          ELSE [add |-> TRUE, warn |-> 0]
        Of(value_type) == Typed(value_type, Obj(value_type))
    IN  Of(Obj(value).cls)

\* getattr(m, name) is value, for the names m defines itself
HasOwn(attrs, name, value) ==
    \E j \in 1..Len(attrs) : attrs[j].name = name /\ attrs[j].get = value

\* ScrapeState._mro_contains(mro, name, value)
MroContains(mro, name, value) ==
    \E i \in 1..Len(mro) : HasOwn(Obj(mro[i]).attrs, name, value)

\* the state of the loop of _collect_members
Collected(list, warn, raised) ==
    [members |-> list, warn |-> warn, raised |-> raised]

RECURSIVE CollectLoop(_, _, _)
\* the loop of _collect_members over dir(mod); c holds what the loop reads
CollectLoop(attrs, acc, c) ==
    LET a == Head(attrs)
        key == StrOf(a.name)
        scoped == StrOf(c.mod_scope) \o "." \o key
        Step(add, built) ==
          IF key \in PyKeywords THEN acc
          ELSE IF key \in DOMAIN c.substitutes
          THEN IF c.substitutes[key].present
               THEN [acc EXCEPT !.members =
                        Append(@, c.substitutes[key].entry)]
               ELSE acc
          ELSE IF scoped \in DOMAIN c.substitutes
          THEN IF c.substitutes[scoped].present
               THEN [acc EXCEPT !.members =
                        Append(@, c.substitutes[scoped].entry)]
               ELSE acc
          ELSE IF key \in c.existing_names THEN acc
          ELSE IF a.get \in {"!AttributeError", "!Exception"}
          THEN [acc EXCEPT !.warn = @ + 1]
          ELSE IF ~add.add THEN [acc EXCEPT !.warn = @ + add.warn]
          ELSE IF MroContains(c.mro, a.name, a.get) THEN acc
          ELSE IF built.raised
          THEN [acc EXCEPT !.warn = @ + built.warn, !.raised = TRUE]
          ELSE [acc EXCEPT !.members = Append(@, built.entry),
                           !.warn = @ + built.warn]
    IN  IF attrs = <<>> \/ acc.raised THEN acc
        ELSE CollectLoop(Tail(attrs),
                         Step(ShouldAddValue(a.get),
                              MemberInfo(c.restypes, c.argspecs, a.name, a.get,
                                         NoneV, c.scope, c.module_name, NoneV,
                                         c.mod_doc, c.scope_alias)),
                         c)

\* ScrapeState._collect_members(mod, members, substitutes, outer_member):
\* members afterwards, the warnings, and whether an exception left it.
\* outer is the outer member, EntryDefault standing for None.
CollectMembers(restypes, argspecs, target, mod, list, substitutes, outer) ==
    LET scope == outer.scope_name
        Walked(m) ==
          IF ~m.truthy THEN Collected(list, 0, TRUE)
          ELSE IF mod = "NO_VALUE" THEN Collected(list, 0, FALSE)
          ELSE CollectLoop(m.attrs, Collected(list, 0, FALSE),
                 [restypes |-> restypes, argspecs |-> argspecs,
                  module_name |-> target, substitutes |-> substitutes,
                  existing_names |->
                      StrSet([i \in 1..Len(list) |-> list[i].name]),
                  scope |-> scope, scope_alias |-> outer.alias,
                  mod_scope |-> IF Truthy(scope)
                                THEN target \o <<".">> \o scope ELSE target,
                  mod_doc |-> m.doc, mro |-> m.mro])
    IN  Walked(Scanned(mod))

\* the object a ScrapeState of that module_name walks
RootOf(target) == IF target = BuiltinsName THEN "builtins" ELSE "mod"

RECURSIVE Undeclared(_, _, _, _)
\* the loop of collect_top_level_members that declares the local types of
\* the collected values: the entries it makes, and whether one raised
Undeclared(target, list, m_names, acc) ==
    LET m == Head(list)
        wanted == /\ m.value # "None"
                  /\ Truthy(m.type_name)
                  /\ ~HasChar(m.type_name, ".")
                  /\ StrOf(m.type_name) \notin m_names
        Made(built) ==
          IF ~wanted THEN Undeclared(target, Tail(list), m_names, acc)
          ELSE IF built.raised THEN [acc EXCEPT !.raised = TRUE]
          ELSE Undeclared(target, Tail(list), m_names,
                          [acc EXCEPT !.members = Append(@, built.entry)])
    IN  IF list = <<>> THEN acc
        ELSE Made(PlainBuilt(m.type_name, Obj(m.value).cls, NoneV, target,
                             NoneV))

\* collect_top_level_members putting the declarations of the local types
\* behind the collected entries
CollectTopLevelMembers_AppendsBackfill(restypes, argspecs, target, list) ==
    LET Appended(r, u) ==
          IF u.raised THEN Collected(r.members, r.warn, TRUE)
          ELSE Collected(r.members \o u.members, r.warn, FALSE)
        Declared(r) ==
          IF r.raised THEN r
          ELSE Appended(r,
                 Undeclared(target, r.members,
                     StrSet([i \in 1..Len(r.members) |-> r.members[i].name]),
                     Collected(<<>>, 0, FALSE)))
    IN  Declared(CollectMembers(restypes, argspecs, target, RootOf(target),
                                list, MODULE_MEMBER_SUBSTITUTE, EntryDefault))

\* ScrapeState.collect_top_level_members()
CollectTopLevelMembers(restypes, argspecs, target, list) ==
    LET Prepended(r, u) ==
          IF u.raised THEN Collected(r.members, r.warn, TRUE)
          ELSE Collected(u.members \o r.members, r.warn, FALSE)
        Declared(r) ==
          IF r.raised THEN r
          ELSE Prepended(r,
                 Undeclared(target, r.members,
                     StrSet([i \in 1..Len(r.members) |-> r.members[i].name]),
                     Collected(<<>>, 0, FALSE)))
    IN  Declared(CollectMembers(restypes, argspecs, target, RootOf(target),
                                list, MODULE_MEMBER_SUBSTITUTE, EntryDefault))

\* _should_collect_members entering classes only
ShouldCollectMembers_ClassesOnly(target, member) ==
    \/ /\ \E i \in 1..Len(member.need_imports) : member.need_imports[i] = target
       /\ StrOf(member.name) = StrOf(member.type_name)
       /\ Obj(member.value).isType
    \/ StrOf(member.type_name) = StrOf(BuiltinsName) \o ".CompiledLib"

\* ScrapeState._should_collect_members(member)
ShouldCollectMembers(target, member) ==
    \/ /\ \E i \in 1..Len(member.need_imports) : member.need_imports[i] = target
       /\ StrOf(member.name) = StrOf(member.type_name)
    \/ StrOf(member.type_name) = StrOf(BuiltinsName) \o ".CompiledLib"

\* the '@staticmethod' collect_second_level_members adds to the members of a
\* class whose scope and type names differ
TagStatic(list) ==
    [i \in 1..Len(list) |->
        IF list[i].signature.present
        THEN [list[i] EXCEPT !.signature.decorators = Append(@, "@staticmethod")]
        ELSE list[i]]

RECURSIVE SecondLevel(_, _, _, _, _)
\* the loop of collect_second_level_members over self.members, from entry i
SecondLevel(restypes, argspecs, target, acc, i) ==
    LET mi == acc.members[i]
        Filled(r) ==
          IF r.raised THEN Collected(acc.members, acc.warn + r.warn, TRUE)
          ELSE Collected([acc.members EXCEPT ![i].members =
                             IF mi.scope_name # mi.type_name
                             THEN TagStatic(r.members) ELSE r.members],
                         acc.warn + r.warn, FALSE)
        Entered(collect) ==
          IF ~collect THEN acc
          ELSE Filled(CollectMembers(restypes, argspecs, target, mi.value,
                          mi.members,
                          [k \in {"__class__"} |->
                              Subst(PlainInfo(<<"__class__">>, "None",
                                              mi.type_name, NoneV, NoneV))]
                          @@ CLASS_MEMBER_SUBSTITUTE,
                          mi))
    IN  IF i > Len(acc.members) \/ acc.raised THEN acc
        ELSE SecondLevel(restypes, argspecs, target,
                         Entered(ShouldCollectMembers(target, mi)), i + 1)

\* ScrapeState.collect_second_level_members()
CollectSecondLevelMembers(restypes, argspecs, target, list) ==
    SecondLevel(restypes, argspecs, target, Collected(list, 0, FALSE), 1)

\* the place sorted() gives a module name among those of the model
ModuleRank(name) ==
    CASE name = "__builtin__" -> 1
      [] name = "builtins" -> 2
      [] name = "collections" -> 3
      [] name = "exceptions" -> 4
      [] name = "mod" -> 5
      [] name = "numpy" -> 6
      [] name = "os" -> 7
      [] OTHER -> 8

RECURSIVE SortedNames(_)
\* sorted(imports)
SortedNames(names) ==
    IF names = {} THEN <<>>
    ELSE LET least == CHOOSE n \in names :
                        \A k \in names : ModuleRank(n) <= ModuleRank(k)
         IN  <<least>> \o SortedNames(names \ {least})

\* the set dump() gathers: need_imports of the entries of self.members
DumpImports(target, list) ==
    UNION {StrSet(list[i].need_imports) : i \in 1..Len(list)}
    \ {StrOf(target)}

\* dump() without its import lines
Dump_NoImports(target, list) ==
    Concat([i \in 1..Len(list) |-> AsStr(list[i], "")])

\* ScrapeState.dump(out): the lines printed
Dump(target, list) ==
    LET Printed(imports) ==
          (IF imports # <<>>
           THEN [i \in 1..Len(imports) |-> "import " \o imports[i]] \o <<"">>
           ELSE <<>>)
          \o Concat([i \in 1..Len(list) |-> AsStr(list[i], "")])
    IN  Printed(SortedNames(DumpImports(target, list)))

-----------------------------------------------------------------------------
(* add_builtin_objects *)

\* add_simple(name, doc, *members) of add_builtin_objects
AddSimple(target, name, doc, list) ==
    [PlainInfo(name, "NO_VALUE", NoneV, NoneV, NoneV) EXCEPT
        !.documentation = doc, !.need_imports = <<target>>, !.members = list]

\* add_literal(name, literal)
AddLiteral(name, literal) ==
    <<PlainInfo(name, "None", literal, NoneV, NoneV)>>

\* add_type(alias, type_obj): the type, then the alias as a literal
AddType(alias, type_obj) ==
    LET Aliased(mi) == <<mi, PlainInfo(alias, "None", mi.name, NoneV, NoneV)>>
    IN  Aliased(PlainInfo(Obj(type_obj).tname, type_obj, NoneV, BuiltinsName,
                          alias))

\* the entries add_builtin_objects appends to state.members (the model keeps
\* the first of its add_type calls)
BuiltinObjects(target) ==
    LET Types(types) ==
          Concat([i \in 1..Len(types) |->
                     AddType(types[i].alias, types[i].type_obj)])
    IN  << AddSimple(target, <<"__Unknown__">>, <<"<unknown>">>,
                     AddLiteral(<<"__name__">>, <<"\"<unknown>\"">>)),
           AddSimple(target, <<"__NoneType__">>,
                     <<"the type of the None object">>, <<Sentinel>>) >>
        \o Types(<< [alias |-> <<"__Object__">>, type_obj |-> "object"],
                    [alias |-> <<"__Type__">>, type_obj |-> "type"],
                    [alias |-> <<"__Int__">>, type_obj |-> "int"] >>)
        \o (IF legacy THEN <<>> ELSE AddLiteral(<<"__Long__">>, <<"__Int__">>))

\* dict.update: the entries of new replace those of old
Updated(old, new) == new @@ old

\* KNOWN_RESTYPES after add_builtin_objects
RestypesAfterBuiltins(table) ==
    IF legacy THEN Updated(Updated(table, BuiltinRestypes), LegacyRestypes)
    ELSE Updated(table, BuiltinRestypes)

\* KNOWN_ARGSPECS after add_builtin_objects
ArgspecsAfterBuiltins(table) ==
    IF legacy THEN Updated(Updated(table, BuiltinArgspecs), LegacyArgspecs)
    ELSE Updated(table, BuiltinArgspecs)

-----------------------------------------------------------------------------
(* The process: the steps of __main__, taken in one interpreter for one    *)
(* module after another.  The tables of Signature are class attributes:    *)
(* they live as long as the interpreter does.                              *)

\* the names a scanned module may expose, as dir() orders them
Pool ==
    <<Attr(<<"Alias">>, "C"), Attr(<<"B">>, "B"), Attr(<<"C">>, "C"), Attr(<<"D">>, "D"),
      Attr(<<"E">>, "E"), Attr(<<"Static">>, "static1"),
      Attr(<<"__builtins__">>, "emptydict"), Attr(<<"__spec__">>, "None"),
      Attr(<<"a", "-", "b">>, "int1"), Attr(<<"a_b">>, "int2"),
      Attr(<<"arr">>, "arr"), Attr(<<"bad">>, "!AttributeError"),
      Attr(<<"brk">>, "broken"), Attr(<<"copy">>, "copy"),
      Attr(<<"f">>, "f"), Attr(<<"lib">>, "lib"), Attr(<<"nanv">>, "nan"),
      Attr(<<"ndarray">>, "K"), Attr(<<"od">>, "od"),
      Attr(<<"pf">>, "pyfunc"), Attr(<<"sub">>, "submod"),
      Attr(<<"x">>, "hidden1"), Attr(<<"y">>, "hidden2"),
      Attr(<<"z">>, "db1")>>

RECURSIVE Pick(_, _)
\* the attributes of Pool at the places of S, in the order of Pool
Pick(S, i) ==
    IF i > Len(Pool) THEN <<>>
    ELSE (IF i \in S THEN <<Pool[i]>> ELSE <<>>) \o Pick(S, i + 1)

RECURSIVE Subsets(_)
\* the sets of at most n places of Pool
Subsets(n) ==
    IF n = 0 THEN {{}}
    ELSE Subsets(n - 1)
         \cup {T \cup {i} : T \in Subsets(n - 1), i \in 1..Len(Pool)}

NoProbe == [op |-> "none"]

Init ==
    /\ legacy \in BOOLEAN
    /\ astConstant \in BOOLEAN
    /\ legacy => ~astConstant
    /\ KNOWN_RESTYPES = KnownRestypesBase
    /\ KNOWN_ARGSPECS = KnownArgspecsBase
    /\ \E S \in Subsets(MaxMembers) : nsAttrs = Pick(S, 1)
    /\ pc = "idle"
    /\ module_name = NoneV
    /\ members = <<>>
    /\ excluded = {}
    /\ warnings = 0
    /\ fault = ""
    /\ out = <<>>
    /\ scans = <<>>
    /\ probe = NoProbe

env == <<legacy, astConstant, nsAttrs, probe>>

\* __main__ without arguments: ScrapeState(builtins.__name__, builtins) and
\* add_builtin_objects(state)
StartBuiltins ==
    /\ pc = "idle"
    /\ Len(scans) < MaxScans
    /\ module_name' = BuiltinsName
    /\ KNOWN_RESTYPES' = RestypesAfterBuiltins(KNOWN_RESTYPES)
    /\ KNOWN_ARGSPECS' = ArgspecsAfterBuiltins(KNOWN_ARGSPECS)
    /\ members' = BuiltinObjects(BuiltinsName)
    /\ excluded' = {"None", "False", "True", "__debug__"}
                   \cup (IF legacy THEN {"print"} ELSE {})
    /\ warnings' = 0
    /\ fault' = ""
    /\ out' = <<>>
    /\ pc' = "imported"
    /\ UNCHANGED <<env, scans>>

\* __main__ with a module name: ScrapeState(name) and initial_import(),
\* which raises when the module cannot be imported
StartModule ==
    /\ pc = "idle"
    /\ Len(scans) < MaxScans
    /\ module_name' = <<"mod">>
    /\ members' = <<>>
    /\ excluded' = {}
    /\ warnings' = 0
    /\ out' = <<>>
    /\ \E imported \in BOOLEAN :
          /\ pc' = IF imported THEN "imported" ELSE "aborted"
          /\ fault' = IF imported THEN "" ELSE "import"
    /\ UNCHANGED <<env, KNOWN_RESTYPES, KNOWN_ARGSPECS, scans>>

\* state.collect_top_level_members()
CollectTopLevel ==
    /\ pc = "imported"
    /\ LET Done(r) ==
             /\ members' = r.members
             /\ warnings' = warnings + r.warn
             /\ pc' = IF r.raised THEN "aborted" ELSE "collected"
             /\ fault' = IF r.raised THEN "top" ELSE ""
       IN  Done(CollectTopLevelMembers(KNOWN_RESTYPES, KNOWN_ARGSPECS,
                                       module_name, members))
    /\ UNCHANGED <<env, KNOWN_RESTYPES, KNOWN_ARGSPECS, module_name, excluded,
                   out, scans>>

\* state.members[:] = [m for m in state.members if m.name not in EXCLUDED_MEMBERS]
Exclude ==
    /\ pc = "collected"
    /\ members' = SelectSeq(members, LAMBDA m : StrOf(m.name) \notin excluded)
    /\ pc' = "filtered"
    /\ UNCHANGED <<env, KNOWN_RESTYPES, KNOWN_ARGSPECS, module_name, excluded,
                   warnings, fault, out, scans>>

\* state.collect_second_level_members()
CollectSecondLevel ==
    /\ pc = "filtered"
    /\ LET Done(r) ==
             /\ members' = r.members
             /\ warnings' = warnings + r.warn
             /\ pc' = IF r.raised THEN "aborted" ELSE "nested"
             /\ fault' = IF r.raised THEN "nested" ELSE ""
       IN  Done(CollectSecondLevelMembers(KNOWN_RESTYPES, KNOWN_ARGSPECS,
                                          module_name, members))
    /\ UNCHANGED <<env, KNOWN_RESTYPES, KNOWN_ARGSPECS, module_name, excluded,
                   out, scans>>

\* state.dump(outfile); the interpreter is then free for another scan
DumpOut ==
    /\ pc = "nested"
    /\ LET Written(printed) ==
             /\ out' = printed
             /\ scans' = Append(scans, [target |-> module_name,
                                        out |-> printed])
       IN  Written(Dump(module_name, members))
    /\ pc' = "idle"
    /\ UNCHANGED <<env, KNOWN_RESTYPES, KNOWN_ARGSPECS, module_name, members,
                   excluded, warnings, fault>>

Next ==
    \/ StartBuiltins
    \/ StartModule
    \/ CollectTopLevel
    \/ Exclude
    \/ CollectSecondLevel
    \/ DumpOut

Spec == Init /\ [][Next]_vars

-----------------------------------------------------------------------------
(* The operations taken alone: each specification below draws the inputs   *)
(* of one operation, applies it and keeps the result in probe.             *)

scanVars ==
    <<legacy, astConstant, KNOWN_RESTYPES, KNOWN_ARGSPECS, nsAttrs, pc,
      module_name, members, excluded, warnings, fault, out, scans>>

\* a runtime
Runtime ==
    /\ legacy \in BOOLEAN
    /\ astConstant \in BOOLEAN
    /\ legacy => ~astConstant

\* the tables of Signature before or after add_builtin_objects ran
Tables ==
    \E after \in BOOLEAN :
        /\ KNOWN_RESTYPES = IF after
                            THEN RestypesAfterBuiltins(KnownRestypesBase)
                            ELSE KnownRestypesBase
        /\ KNOWN_ARGSPECS = IF after
                            THEN ArgspecsAfterBuiltins(KnownArgspecsBase)
                            ELSE KnownArgspecsBase

\* no scan is running
NoScan ==
    /\ nsAttrs = <<>>
    /\ pc = "idle"
    /\ module_name = NoneV
    /\ members = <<>>
    /\ excluded = {}
    /\ warnings = 0
    /\ fault = ""
    /\ out = <<>>
    /\ scans = <<>>

\* the method names, and the scopes and aliases, the lookups are tried with
KnownNames ==
    {<<"__next__">>, <<"next">>, <<"__round__">>, <<"__init__">>,
     <<"__getitem__">>, <<"copy">>, <<"count">>, <<"append">>, <<"m">>}
KnownScopes ==
    {NoneV, <<"__Int__">>, <<"__Bytes__">>, <<"__BytesIterator__">>,
     <<"__List__">>, <<"C">>}

InitKnown ==
    /\ Runtime
    /\ Tables
    /\ NoScan
    /\ \E n \in KnownNames, s \in KnownScopes, a \in KnownScopes :
          probe = [op |-> "lookup", name |-> n, scope |-> s, alias |-> a]

\* the lookup of _init_argspec_fromknown
LookupArgspec ==
    /\ probe.op = "lookup"
    /\ probe' = [op |-> "argspec", name |-> probe.name,
                 scope |-> probe.scope, alias |-> probe.alias,
                 found |-> KnownArgspec(KNOWN_ARGSPECS, probe.name,
                                        probe.scope, probe.alias)]
    /\ UNCHANGED scanVars

\* the lookup of _init_restype_fromknown
LookupRestype ==
    /\ probe.op = "lookup"
    /\ probe' = [op |-> "restype", name |-> probe.name,
                 scope |-> probe.scope, alias |-> probe.alias,
                 found |-> KnownRestype(KNOWN_RESTYPES, probe.name,
                                        probe.scope, probe.alias)]
    /\ UNCHANGED scanVars

NextKnown == LookupArgspec \/ LookupRestype

SpecKnown == InitKnown /\ [][NextKnown]_vars

\* the names, callables, scopes and documentation of the enclosing object a
\* Signature is built with
SigNames ==
    {<<"f">>, <<"__round__">>, <<"m">>, <<"copy">>, <<"__init__">>,
     <<"__getitem__">>, <<"__iter__">>}
SigCallables ==
    {"f", "round", "m", "copy", "pyfunc", "pyfunc2", "prop", "object_init",
     "dup"}
SigScopes == {NoneV, <<"C">>, <<"int">>, <<"tuple">>}
SigAliases == {NoneV, <<"__Int__">>, <<"__Tuple__">>}

InitSignature ==
    /\ Runtime
    /\ Tables
    /\ NoScan
    /\ \E n \in SigNames, c \in SigCallables, s \in SigScopes,
          a \in SigAliases, d \in {NoneV, ModuleDoc} :
          probe = [op |-> "member", name |-> n, value |-> c, scope |-> s,
                   alias |-> a, module_doc |-> d]

\* MemberInfo(name, value, scope=scope, module=..., module_doc=module_doc,
\* scope_alias=alias) as _collect_members builds it, and the Signature in it
BuildSignature ==
    /\ probe.op = "member"
    /\ LET Kept(built) ==
             probe' = [op |-> "signature", name |-> probe.name,
                       value |-> probe.value, scope |-> probe.scope,
                       alias |-> probe.alias, module_doc |-> probe.module_doc,
                       fullsig |-> built.entry.signature.fullsig,
                       restype |-> built.entry.signature.restype,
                       decorators |-> built.entry.signature.decorators]
       IN  Kept(MemberInfo(KNOWN_RESTYPES, KNOWN_ARGSPECS, probe.name,
                           probe.value, NoneV, probe.scope, <<"mod">>, NoneV,
                           probe.module_doc, probe.alias))
    /\ UNCHANGED scanVars

NextSignature == BuildSignature

SpecSignature == InitSignature /\ [][NextSignature]_vars

\* the sequences of at most n elements of S
SeqsUpTo(S, n) == UNION {[1..k -> S] : k \in 0..n}

\* the argument names the reconciliation is tried with
ArgNames == {<<"self">>, <<"cls">>, <<"type">>, <<"x">>}
DefaultNames == {<<"self">>, <<"cls">>, <<"x">>}

InitDefaults ==
    /\ Runtime
    /\ KNOWN_RESTYPES = KnownRestypesBase
    /\ KNOWN_ARGSPECS = KnownArgspecsBase
    /\ NoScan
    /\ \E a \in SeqsUpTo(ArgNames, MaxArgs),
          d \in SeqsUpTo(DefaultNames, MaxDefaults) :
          probe = [op |-> "args", args |-> a, defaults |-> d]

\* self._insert_default_arguments(args, defaults)
Reconcile ==
    /\ probe.op = "args"
    /\ probe' = [op |-> "reconciled", args |-> probe.args,
                 defaults |-> probe.defaults,
                 result |-> InsertDefaultArguments(probe.args, probe.defaults)]
    /\ UNCHANGED scanVars

\* self._insert_default_arguments(args, defaults) on the list it has
\* reconciled already
ReconcileAgain ==
    /\ probe.op = "reconciled"
    /\ probe' = [op |-> "twice", args |-> probe.args,
                 defaults |-> probe.defaults, result |-> probe.result,
                 again |-> InsertDefaultArguments(probe.result,
                                                  probe.defaults)]
    /\ UNCHANGED scanVars

NextDefaults == Reconcile \/ ReconcileAgain

SpecDefaults == InitDefaults /\ [][NextDefaults]_vars

\* the documentation texts the parsing is tried with
DocTexts ==
    {Doc_f,
     <<"f", "(", "a", "[", ",", " ", "b", "]", ")">>,
     <<"C", ".", "f", "(", "x", ",", " ", "y", "=", "2", ")">>,
     <<"f", "(", "a", ",", " ", "b", "=", "lambda", ")">>,
     <<"g", "(", "a", ")">>,
     <<"f", "(", "a", " ", "b", ")">>,
     <<"C", ".", "g", "(", "x", ")">>,
     <<"C", ".", "f", "(", "x", "[", ",", " ", "y", "=", "lambda", "]", ")">>,
     \* a default that is a name before one that is a call and a literal
     <<"f", "(", "a", "=", "x", ",", " ", "b", "=", "g", "(", ")", ",", " ",
       "c", "=", "2", ")">>,
     \* a repeated name with defaults
     <<"f", "(", "x", "=", "1", ",", " ", "x", "=", "y", ")">>,
     \* a call before a literal, and a list holding a call
     <<"f", "(", "self", ",", " ", "a", "=", "g", "(", ")", ",", " ",
       "b", "=", "[", "g", "(", ")", "]", ")">>,
     \* a parameter without a default behind one with a default
     <<"f", "(", "a", "=", "1", ",", " ", "b", ")">>}
DocNames == {<<"f">>, <<"g">>, <<"__init__">>}

InitDocstring ==
    /\ Runtime
    /\ KNOWN_RESTYPES = KnownRestypesBase
    /\ KNOWN_ARGSPECS = KnownArgspecsBase
    /\ NoScan
    /\ \E n \in DocNames, x \in DocTexts, m \in BOOLEAN,
          d \in {<<>>, << <<"self">> >>} :
          probe = [op |-> "doc", name |-> n, text |-> x, ofModule |-> m,
                   defaults |-> d]

\* self._init_argspec_fromdocstring(defaults, doc): with the documentation
\* of the enclosing namespace as doc, or without doc for a callable that
\* carries the text as its __doc__
ParseDocumentation ==
    /\ probe.op = "doc"
    /\ LET Kept(r) ==
             probe' = [op |-> "parsed", name |-> probe.name,
                       text |-> probe.text, ofModule |-> probe.ofModule,
                       defaults |-> probe.defaults, sig |-> r.sig,
                       warn |-> r.warn]
       IN  Kept(InitArgspecFromDocstring(
                    probe.name,
                    [DefaultObj EXCEPT
                        !.callable = TRUE,
                        !.doc = IF probe.ofModule THEN NoneV ELSE probe.text],
                    probe.defaults,
                    IF probe.ofModule THEN probe.text ELSE NoneV))
    /\ UNCHANGED scanVars

NextDocstring == ParseDocumentation

SpecDocstring == InitDocstring /\ [][NextDocstring]_vars

\* the characters of the texts the example-call extraction is tried with
CallChars == {"(", ")", "a", " "}
CallTexts == SeqsUpTo(CallChars, MaxText)

InitCall ==
    /\ Runtime
    /\ KNOWN_RESTYPES = KnownRestypesBase
    /\ KNOWN_ARGSPECS = KnownArgspecsBase
    /\ NoScan
    /\ \E x \in CallTexts : probe = [op |-> "text", text |-> x]

\* self._get_first_function_call(expr)
ExtractCall ==
    /\ probe.op = "text"
    /\ probe' = [op |-> "call", text |-> probe.text,
                 call |-> GetFirstFunctionCall(probe.text)]
    /\ UNCHANGED scanVars

NextCall == ExtractCall

SpecCall == InitCall /\ [][NextCall]_vars

\* the namespaces a value is resolved against
OriginModules == {<<"mod">>, BuiltinsName, <<"numpy">>, <<"os">>}

InitOrigin ==
    /\ Runtime
    /\ Tables
    /\ NoScan
    /\ \E v \in ObjIds, m \in OriginModules :
          probe = [op |-> "value", value |-> v, in_module |-> m]

\* MemberInfo._get_typename(value, in_module) of a type
ResolveOrigin ==
    /\ probe.op = "value"
    /\ probe.value \in TypeIds
    /\ probe' = [op |-> "resolved", value |-> probe.value,
                 in_module |-> probe.in_module,
                 typename |-> GetTypename(probe.value, probe.in_module)]
    /\ UNCHANGED scanVars

\* MemberInfo(name, value, module=in_module) of any value
Classify ==
    /\ probe.op = "value"
    /\ probe' = [op |-> "classified", value |-> probe.value,
                 in_module |-> probe.in_module,
                 built |-> MemberInfo(KNOWN_RESTYPES, KNOWN_ARGSPECS,
                                      <<"v">>, probe.value, NoneV, NoneV,
                                      probe.in_module, NoneV, NoneV, NoneV)]
    /\ UNCHANGED scanVars

NextOrigin == ResolveOrigin \/ Classify

SpecOrigin == InitOrigin /\ [][NextOrigin]_vars

-----------------------------------------------------------------------------
(* Properties of a scan *)

\* the names of the entries of a member list (NO_VALUE is no entry)
Names(list) ==
    SelectSeq([i \in 1..Len(list) |-> StrOf(list[i].name)],
              LAMBDA n : n # "")

Distinct(s) == \A i, j \in 1..Len(s) : i # j => s[i] # s[j]

\* a scan has run to its end and its output is in out
Dumped == pc = "idle" /\ scans # <<>>

HasLine(lines, l) == \E i \in 1..Len(lines) : lines[i] = l

\* the namespaces the objects of the model originate from
ModuleNames ==
    {"__builtin__", "builtins", "collections", "exceptions", "mod", "numpy",
     "os", "other"}

\* the namespaces the printed lines import
Emitted(lines) == {n \in ModuleNames : HasLine(lines, "import " \o n)}

\* need_imports of the entries of a member list
Required(list) == UNION {StrSet(list[i].need_imports) : i \in 1..Len(list)}

\* need_imports of the entries at every depth
RequiredAtEveryDepth(list) ==
    Required(list) \cup UNION {Required(list[i].members) : i \in 1..Len(list)}

\* C1: after a complete scan the names of the entries of every member list,
\* the top-level list and the member list of each class entry, are pairwise
\* distinct (a later sibling of the same identifier would carry a suffix)
C1_NamesPairwiseDistinct ==
    pc = "nested" =>
        /\ Distinct(Names(members))
        /\ \A i \in 1..Len(members) : Distinct(Names(members[i].members))

\* C2: the import lines a scan emits are the required imports of the entries
\* at every nesting depth, less the scanned namespace itself
C2_ImportsOfEveryDepth ==
    Dumped =>
        Emitted(out) = RequiredAtEveryDepth(members) \ {StrOf(module_name)}

\* C3: a scan aborts only when the root namespace is unavailable
C3_AbortsOnlyWithoutRoot == pc = "aborted" => fault = "import"

\* C4: two complete scans of the same namespace in one process give the same
\* output, whatever was scanned in between
C4_SameOutputEveryScan ==
    \A i, j \in 1..Len(scans) :
        scans[i].target = scans[j].target => scans[i].out = scans[j].out

\* the entries of a list and of the member lists of its entries
EntriesOf(list) ==
    {list[i] : i \in 1..Len(list)}
    \cup UNION {{list[i].members[j] : j \in 1..Len(list[i].members)} :
                   i \in 1..Len(list)}

\* the places among the bases of a class of those that resolve to type_name
\* and do not originate from module (nor pass for local by LIES_ABOUT_MODULE)
ForeignNamesakes(bases, type_name, module) ==
    LET Foreign(r) ==
          /\ r.name = type_name
          /\ \A i \in 1..Len(r.imports) : r.imports[i] # module
    IN  {k \in 1..Len(bases) : Foreign(GetTypename(bases[k], module))}

\* C5: the base list of a class entry holds no base that resolves to the
\* class's own type name and originates from the scanned namespace (or passes
\* for local by the known-incorrect-origin set): the class's own name stands
\* in the list once for each base of that name from elsewhere, and no more
C5_NoLocalNamesakeBase ==
    \A e \in EntriesOf(members) :
        Obj(e.value).isType /\ Truthy(e.type_name) =>
            Cardinality({k \in 1..Len(e.bases) : e.bases[k] = e.type_name})
            = Cardinality(ForeignNamesakes(Obj(e.value).bases, e.type_name,
                                           module_name))

\* a class named like its bases was scanned: the two local namesakes are gone
\* from its base list, the foreign ones are in it
C5_NamesakesDropped ==
    /\ Dumped
    /\ HasLine(out, "class ndarray(other.ndarray,ndarray):")

\* the scanned module exposes class C under its own name and nothing else,
\* and a scan of it is complete
OnlyC ==
    /\ Dumped
    /\ module_name = <<"mod">>
    /\ Len(nsAttrs) = 1
    /\ nsAttrs[1] = Attr(<<"C">>, "C")

-----------------------------------------------------------------------------
(* Properties of the operations *)

\* the keys a lookup for name tries, in the order of their precedence
LookupKeys(name, scope, alias) ==
    (IF Truthy(alias) THEN <<DotKey(alias, name)>> ELSE <<>>)
    \o (IF Truthy(scope) THEN <<DotKey(scope, name)>> ELSE <<>>)
    \o <<StrOf(name)>>

\* the first of the keys that is in hits (0: none is)
FirstOf(keys, hits) ==
    IF \A i \in 1..Len(keys) : keys[i] \notin hits THEN 0
    ELSE CHOOSE i \in 1..Len(keys) :
            /\ keys[i] \in hits
            /\ \A j \in 1..(i - 1) : keys[j] \notin hits

\* what a lookup that settles on the at-th key answers with: its entry, or
\* nothing when it settles on none or on an empty entry
ArgspecAt(keys, at) ==
    IF at = 0 THEN NoneV
    ELSE IF Truthy(KNOWN_ARGSPECS[keys[at]]) THEN KNOWN_ARGSPECS[keys[at]]
    ELSE NoneV

RestypeAt(keys, at) ==
    IF at = 0 THEN RNone
    ELSE IF RTruthy(KNOWN_RESTYPES[keys[at]]) THEN KNOWN_RESTYPES[keys[at]]
    ELSE RNone

\* C6 as stated: the lookup answers with the entry keyed alias.name if the
\* table has one, otherwise with the entry keyed scope.name, otherwise with
\* the entry keyed name, otherwise with nothing
C6_FirstKeyPresent ==
    LET keys == LookupKeys(probe.name, probe.scope, probe.alias)
    IN  /\ probe.op = "argspec" =>
              probe.found = ArgspecAt(keys,
                                      FirstOf(keys, DOMAIN KNOWN_ARGSPECS))
        /\ probe.op = "restype" =>
              probe.found = RestypeAt(keys,
                                      FirstOf(keys, DOMAIN KNOWN_RESTYPES))

\* C6 as amended: the lookup answers with the first entry that is not empty
\* (neither None nor an empty text) among those keyed alias.name, scope.name
\* and name, in this order, and with nothing when there is none
C6_FirstEntryNotEmpty ==
    LET keys == LookupKeys(probe.name, probe.scope, probe.alias)
    IN  /\ probe.op = "argspec" =>
              probe.found =
                  ArgspecAt(keys,
                            FirstOf(keys, {k \in DOMAIN KNOWN_ARGSPECS :
                                              Truthy(KNOWN_ARGSPECS[k])}))
        /\ probe.op = "restype" =>
              probe.found =
                  RestypeAt(keys,
                            FirstOf(keys, {k \in DOMAIN KNOWN_RESTYPES :
                                              RTruthy(KNOWN_RESTYPES[k])}))

\* a lookup met an alias-qualified entry that is None and answered with the
\* entry of the bare name
C6_EmptyEntryPassedOver ==
    /\ probe.op = "restype"
    /\ probe.name = <<"__next__">>
    /\ probe.alias = <<"__BytesIterator__">>
    /\ "__BytesIterator__.__next__" \in DOMAIN KNOWN_RESTYPES
    /\ KNOWN_RESTYPES["__BytesIterator__.__next__"] = RNone
    /\ probe.found = KNOWN_RESTYPES["__next__"]

\* the callable has no native signature nor argument specification
NoNativeMetadata(o) == o.callable /\ ~o.argspec.ok /\ ~o.hasSig

\* the documentation of o begins with name(a, b=1)
DocBegins(o, name) ==
    LET call == name \o <<"(", "a", ",", " ", "b", "=", "1", ")">>
    IN  /\ o.doc # NoneV
        /\ Len(o.doc) >= Len(call)
        /\ SubSeq(o.doc, 1, Len(call)) = call

\* C7: a callable without native metadata, whatever its name, whose
\* documentation begins with name(a, b=1) gets the parameters a, b=1, after
\* self when a scope is given
C7_ParametersOfDocumentation ==
    probe.op = "signature" /\ NoNativeMetadata(Obj(probe.value))
    /\ DocBegins(Obj(probe.value), probe.name) =>
        StrOf(probe.fullsig)
        = StrOf(probe.name) \o (IF Truthy(probe.scope) THEN "(self, a, b=1)"
                                ELSE "(a, b=1)")

\* the name or the reported origin of type t cannot be read
Unreadable(t) == Obj(t).tname = Raises \/ Obj(t).tmodule = NotAString

\* the hyphens of the name of t replaced as _get_typename replaces them
BareName(t) == Replace(Obj(t).tname, "-", "_")

\* C9 as stated: the bare name and no import but that of the current
\* namespace when the reported origin is the current namespace, the same when
\* origin.bareName is in the known-incorrect-origin set, and otherwise the
\* qualified name origin.bareName with the import of the origin
C9_OriginTrichotomy ==
    probe.op = "resolved" /\ ~Unreadable(probe.value) =>
        LET o == Obj(probe.value)
            r == probe.typename
            local == /\ r.name = BareName(probe.value)
                     /\ \A i \in 1..Len(r.imports) :
                           r.imports[i] = probe.in_module
        IN  IF o.tmodule = probe.in_module THEN local
            ELSE IF LiesAbout(o.tmodule \o <<".">> \o BareName(probe.value))
            THEN local
            ELSE /\ r.name = o.tmodule \o <<".">> \o BareName(probe.value)
                 /\ r.imports = <<o.tmodule>>

\* C9 as amended: a type that reports no origin, or the origin '<unknown>',
\* resolves to its bare name with no import at all; on a legacy runtime the
\* origin 'exceptions' counts as the built-in namespace while that is the
\* current one; for the rest the three cases are as stated
C9_OriginCases ==
    probe.op = "resolved" /\ ~Unreadable(probe.value) =>
        LET o == Obj(probe.value)
            r == probe.typename
            origin == IF legacy /\ o.tmodule = <<"exceptions">>
                         /\ probe.in_module = BuiltinsName
                      THEN BuiltinsName ELSE o.tmodule
            local == /\ r.name = BareName(probe.value)
                     /\ r.imports = <<probe.in_module>>
        IN  /\ ~r.raised
            /\ IF origin \in {NoneV, <<>>, <<"<unknown>">>}
               THEN r.name = BareName(probe.value) /\ r.imports = <<>>
               ELSE IF origin = probe.in_module THEN local
               ELSE IF LiesAbout(origin \o <<".">> \o BareName(probe.value))
               THEN local
               ELSE /\ r.name = origin \o <<".">> \o BareName(probe.value)
                    /\ r.imports = <<origin>>

\* a type that reports no origin was resolved: bare name, no import
C9_NoOriginResolved ==
    /\ probe.op = "resolved"
    /\ Obj(probe.value).tmodule = NoneV
    /\ ~Unreadable(probe.value)
    /\ probe.typename = TypenameResult(<<>>, Obj(probe.value).tname)

\* the resolution the classifier asks for, for this value, fails: the value
\* is a type that is unreadable or has an unreadable base, or it is a typed
\* value of an unreadable type
ResolutionFails(v) ==
    LET o == Obj(v)
    IN  IF o.isType
        THEN \/ Unreadable(v)
             \/ \E i \in 1..Len(o.bases) : Unreadable(o.bases[i])
        ELSE /\ ~o.callable
             /\ v # "None"
             /\ o.cls \notin SKIP_TYPENAME_FOR_TYPES
             /\ Unreadable(o.cls)

\* C10: when the name or the origin of a type cannot be read the resolver
\* returns no typename and no imports without raising, and the classifier
\* that called it, for a class value, a base type or a typed value, still
\* returns an entry
C10_FailureLeavesAnEntry ==
    /\ probe.op = "resolved" /\ Unreadable(probe.value) =>
          /\ ~probe.typename.raised
          /\ probe.typename.name = NoneV
          /\ probe.typename.imports = <<>>
    /\ probe.op = "classified" /\ ResolutionFails(probe.value) =>
          ~probe.built.raised

RECURSIVE ParamNamesFrom(_, _, _, _)
\* the parameter names of a signature text, read from chunk i on: depth
\* counts the open brackets, atStart says that a parameter begins here
ParamNamesFrom(sig, i, depth, atStart) ==
    LET c == sig[i]
    IN  IF i > Len(sig) THEN <<>>
        ELSE IF c \in {"(", "[", "{"}
        THEN ParamNamesFrom(sig, i + 1, depth + 1, depth = 0)
        ELSE IF c \in {")", "]", "}"}
        THEN ParamNamesFrom(sig, i + 1, depth - 1, FALSE)
        ELSE IF c = "," /\ depth = 1
        THEN ParamNamesFrom(sig, i + 1, depth, TRUE)
        ELSE IF atStart /\ depth = 1 /\ c \notin {" ", "*", "**"}
        THEN <<c>> \o ParamNamesFrom(sig, i + 1, depth, FALSE)
        ELSE ParamNamesFrom(sig, i + 1, depth, atStart)

\* the parameter names of the text name(p1, p2=d, *p3)
ParamNames(sig) == ParamNamesFrom(sig, 1, 0, FALSE)

\* C11: the parameter names of every resolved signature are pairwise
\* distinct, after the reconciliation with the implicit arguments too, and a
\* repeated name of a parsed header carries a suffix (x, x2)
C11_ParameterNamesDistinct ==
    probe.op = "signature" =>
        /\ Distinct(ParamNames(probe.fullsig))
        /\ probe.value = "dup" /\ probe.name = <<"f">> =>
              \E i \in 1..Len(ParamNames(probe.fullsig)) - 1 :
                  /\ ParamNames(probe.fullsig)[i] = "x"
                  /\ ParamNames(probe.fullsig)[i + 1] = "x2"

-----------------------------------------------------------------------------
(* Properties of the rendering *)

\* the entry was built from a type object that resolves to the scanned
\* namespace
LocalType(e) ==
    /\ Obj(e.value).isType
    /\ ~GetTypename(e.value, module_name).raised
    /\ GetTypename(e.value, module_name).imports = <<module_name>>

\* the entry was built from a callable or an accessor
CallableOrAccessor(e) ==
    /\ ~Obj(e.value).isType
    /\ e.value \in ObjIds
    /\ Obj(e.value).callable \/ Obj(e.value).cls \in PROPERTY_TYPES

\* C12: an entry with a pre-rendered literal is rendered as name = literal;
\* without one, an entry built from a type of the scanned namespace is
\* rendered as a class declaration, whatever its name and its members, and
\* an entry built from a callable or an accessor as a def
C12_RenderedAsClassified ==
    pc = "nested" =>
        \A e \in EntriesOf(members) :
            IF e = Sentinel THEN TRUE
            ELSE IF Truthy(e.literal)
            THEN AsStr(e, "") = <<StrOf(e.name) \o " = " \o StrOf(e.literal)>>
            ELSE /\ LocalType(e) => AsStr(e, "") = LinesWithMembers(e)
                 /\ CallableOrAccessor(e) =>
                        AsStr(e, "") = LinesWithSignature(e)

-----------------------------------------------------------------------------
(* Properties of the steps of a scan *)

IsPrefix(s, t) == Len(s) <= Len(t) /\ SubSeq(t, 1, Len(s)) = s

\* an entry without its member list, and a list of such
Bare(e) == [e EXCEPT !.members = <<>>]
BareList(list) == [i \in 1..Len(list) |-> Bare(list[i])]

\* a step of a running scan that does not abort it
ScanStep == pc \in {"imported", "collected", "filtered"} /\ pc' # "aborted"

\* C13 as stated: at every step of a scan the top-level list and the member
\* list of each entry are extensions of their previous values, and the
\* entries they held are as they were
C13_AppendOnly ==
    [][ScanStep =>
          /\ IsPrefix(BareList(members), BareList(members'))
          /\ \A i \in 1..Len(members) :
                i <= Len(members') =>
                    IsPrefix(members[i].members, members'[i].members)]_vars

\* the entry carries the name of an attribute dir() lists of the scanned
\* object
FromDir(e) ==
    LET attrs == Scanned(RootOf(module_name)).attrs
    IN  \E j \in 1..Len(attrs) : Replace(attrs[j].name, "-", "_") = e.name

\* new is old with declarations of types put before it and entries named by
\* dir() put behind it
Backfilled(old, new) ==
    \E k \in 0..(Len(new) - Len(old)) :
        /\ SubSeq(new, k + 1, k + Len(old)) = old
        /\ \A i \in 1..k :
              /\ Obj(new[i].value).isType
              /\ \A j \in (k + 1)..Len(new) : new[j].name # new[i].name
        /\ \A i \in (k + Len(old) + 1)..Len(new) : FromDir(new[i])

\* C13 as amended: Phase 1 with the back-fill puts the declarations of the
\* undeclared local types before the entries the list held and the collected
\* entries behind them; the exclusion removes the entries of excluded names
\* and keeps the others in their order; Phase 2 keeps the top-level entries
\* in place and only appends to their member lists
C13_StepsOfAScan ==
    [][ScanStep =>
          /\ pc = "imported" => Backfilled(members, members')
          /\ pc = "collected" =>
                members' = SelectSeq(members,
                                     LAMBDA m : StrOf(m.name) \notin excluded)
          /\ pc = "filtered" =>
                /\ BareList(members') = BareList(members)
                /\ \A i \in 1..Len(members) :
                      IsPrefix(members[i].members, members'[i].members)]_vars

\* a scan put the declaration of an undeclared local type before the value
\* it collected, and Phase 2 filled the member list of that declaration
C13_BackfilledAndFilled ==
    /\ pc = "nested"
    /\ Len(members) = 2
    /\ members[1].name = <<"Hidden">>
    /\ members[2].value = "hidden1"
    /\ members[1].members # <<>>

-----------------------------------------------------------------------------
(* Properties of the emitted text *)

\* a line that is empty or holds blanks only
BlankLine(l) == l \in {"", "    ", "        "}

RECURSIVE TrimBlock(_)
\* the lines without the blank lines at their end
TrimBlock(lines) ==
    IF lines # <<>> /\ BlankLine(lines[Len(lines)])
    THEN TrimBlock(SubSeq(lines, 1, Len(lines) - 1))
    ELSE lines

\* the number of lines before the first entry: the import lines and the
\* empty line after them
HeaderLines(lines) ==
    IF Emitted(lines) = {} THEN 0 ELSE Cardinality(Emitted(lines)) + 1

\* the lines of the top-level entries, in the order of the list
Blocks == [i \in 1..Len(members) |-> AsStr(members[i], "")]

RECURSIVE LinesBefore(_, _)
\* the number of lines the first n blocks take
LinesBefore(blocks, n) ==
    IF n = 0 THEN 0 ELSE Len(blocks[n]) + LinesBefore(blocks, n - 1)

-----------------------------------------------------------------------------
(* Properties of the return expression *)

\* a Signature was built for the value: it is callable or an accessor
HasSignature(v) ==
    /\ ~Obj(v).isType
    /\ Obj(v).callable \/ Obj(v).cls \in PROPERTY_TYPES

\* the entry of the table of known return types the lookup of the probe
\* settles on
Template == KnownRestype(KNOWN_RESTYPES, probe.name, probe.scope, probe.alias)

\* the return expression comes from the table of known return types
FromKnownRestypes ==
    /\ probe.op = "signature"
    /\ HasSignature(probe.value)
    /\ ~Obj(probe.value).hasSig
    /\ Template.kind = "str"

\* C15: a return expression that resolves to Any or Unknown is replaced by
\* the placeholder pass; no resolved signature returns Any or Unknown
C15_AnyCollapsesToPass ==
    /\ FromKnownRestypes /\ StrOf(Template.s) \in {"Any", "Unknown"} =>
          probe.restype = <<"pass">>
    /\ probe.op = "signature" =>
          StrOf(probe.restype)
          \notin {"Any", "Unknown", "return Any", "return Unknown"}

\* the chunk at i is the placeholder __T, not the beginning of a longer
\* identifier
PlaceholderAt(s, i) ==
    s[i] = "__T" /\ (i = Len(s) \/ ~IsWord(s[i + 1]))

RECURSIVE Substituted(_, _, _)
\* the template from chunk i on, each placeholder replaced by the scope
Substituted(s, i, scope) ==
    IF i > Len(s) THEN <<>>
    ELSE (IF PlaceholderAt(s, i) THEN scope ELSE <<s[i]>>)
         \o Substituted(s, i + 1, scope)

\* C16: with a scope, the return expression is the matched template with
\* every placeholder __T replaced by the scope and nothing else changed
C16_OnlyThePlaceholder ==
    FromKnownRestypes /\ Truthy(probe.scope)
    /\ StrOf(Template.s) \notin {"Any", "Unknown"} =>
        StrOf(probe.restype)
        = "return " \o StrOf(Substituted(Template.s, 1, probe.scope))

-----------------------------------------------------------------------------
(* Properties of the classification of values *)

\* the value is a float that is not a number or infinite
NotFinite(v) ==
    Obj(v).cls = "float" /\ Obj(v).repr \in {<<"nan">>, <<"inf">>, <<"-inf">>}

\* C17: a float that is not a number, or infinite, is classified with the
\* literal float('nan'), float('inf') or float('-inf') and rendered as
\* name = that literal, never with the repr() of the value
C17_CorrectiveLiteral ==
    probe.op = "classified" /\ NotFinite(probe.value) =>
        LET lit == "float('" \o StrOf(Obj(probe.value).repr) \o "')"
        IN  /\ ~probe.built.raised
            /\ StrOf(probe.built.entry.literal) = lit
            /\ AsStr(probe.built.entry, "") = <<"v = " \o lit>>

\* negative infinity was classified and rendered with its literal
C17_NegativeInfinityRendered ==
    /\ probe.op = "classified"
    /\ probe.value = "ninf"
    /\ AsStr(probe.built.entry, "") = <<"v = float('-inf')">>

-----------------------------------------------------------------------------
(* Properties of the resolution of the parameter list *)

\* the implicit arguments of the Signature of the probe
ImplicitArgs ==
    IF ~Truthy(probe.scope) THEN <<>>
    ELSE IF \E i \in 1..Len(probe.decorators) :
               probe.decorators[i] = "@classmethod"
    THEN << <<"cls">> >> ELSE << <<"self">> >>

\* what each strategy yields for the probe (NoneV: nothing)
CtorFromDoc ==
    IF /\ StrOf(probe.name) \in {"__init__", "__new__"}
       /\ Obj(probe.value).callable /\ Truthy(probe.module_doc)
    THEN InitArgspecFromDocstring(probe.name, Obj(probe.value), ImplicitArgs,
                                  probe.module_doc).sig
    ELSE NoneV
AccessorShortCircuit ==
    IF ~Obj(probe.value).callable /\ Obj(probe.value).hasGet
    THEN SigText(probe.name, ImplicitArgs) ELSE NoneV
NativeIntrospection == InitArgspecFromSignature(probe.name, Obj(probe.value))
ArgspecExtraction ==
    InitArgspecFromArgspec(probe.name, Obj(probe.value), ImplicitArgs)
KnowledgeBase ==
    InitArgspecFromKnown(KNOWN_ARGSPECS, probe.name, probe.scope, probe.alias)
DocumentationParsing ==
    InitArgspecFromDocstring(probe.name, Obj(probe.value), ImplicitArgs,
                             NoneV).sig
BareFallback == SigText(probe.name, ImplicitArgs)

\* the first of the results that is one
FirstResult(results) ==
    LET some == {i \in 1..Len(results) : Truthy(results[i])}
    IN  results[CHOOSE i \in some : \A j \in some : i <= j]

\* C18 as stated: the signature text is the result of the first strategy
\* that yields one, in the order constructor-from-documentation, accessor
\* short-circuit, native introspection, argument-spec extraction, knowledge
\* base, documentation parsing, bare fallback
C18_FirstOfSevenStrategies ==
    probe.op = "signature" /\ HasSignature(probe.value) =>
        probe.fullsig
        = FirstResult(<<CtorFromDoc, AccessorShortCircuit, NativeIntrospection,
                        ArgspecExtraction, KnowledgeBase, DocumentationParsing,
                        BareFallback>>)

\* C18 as amended: native introspection is not consulted; the signature text
\* is the result of the first of the other six strategies that yields one
C18_FirstOfSixStrategies ==
    probe.op = "signature" /\ HasSignature(probe.value) =>
        probe.fullsig
        = FirstResult(<<CtorFromDoc, AccessorShortCircuit, ArgspecExtraction,
                        KnowledgeBase, DocumentationParsing, BareFallback>>)

\* a callable with native metadata got its parameters from the
\* argument-spec extraction, which differ from those native introspection
\* gives
C18_ArgspecNotNative ==
    /\ probe.op = "signature"
    /\ probe.value = "pyfunc"
    /\ probe.fullsig = ArgspecExtraction
    /\ Truthy(NativeIntrospection)
    /\ StrOf(NativeIntrospection) # StrOf(probe.fullsig)

-----------------------------------------------------------------------------
(* Properties of the reconciliation with the implicit arguments *)

\* the positions at which the implicit list d differs from the inferred list
\* a, an inferred type against an implicit cls counting as equal
Differing(a, d) ==
    {i \in 1..Len(d) : a[i] # d[i] /\ ~(d[i] = <<"cls">> /\ a[i] = <<"type">>)}

\* C19: the reconciliation of an inferred list A with the implicit list D
\* gives D followed by A when A is shorter than D, D followed by A from the
\* first differing position on when there is one, and A otherwise; applied
\* to its own result it changes nothing
C19_Reconciliation ==
    /\ probe.op \in {"reconciled", "twice"} =>
          LET a == probe.args
              d == probe.defaults
              first == CHOOSE i \in Differing(a, d) :
                          \A j \in Differing(a, d) : i <= j
          IN  probe.result
              = IF Len(a) < Len(d) THEN d \o a
                ELSE IF Differing(a, d) # {}
                THEN d \o SubSeq(a, first, Len(a))
                ELSE a
    /\ probe.op = "twice" => probe.again = probe.result

\* an inferred list that differs from the implicit list at the second
\* position was reconciled, twice
C19_SplicedAtSecond ==
    /\ probe.op = "twice"
    /\ probe.defaults = << <<"self">>, <<"x">> >>
    /\ probe.args = << <<"self">>, <<"cls">>, <<"x">> >>
    /\ probe.result = << <<"self">>, <<"x">>, <<"cls">>, <<"x">> >>
    /\ probe.again = probe.result

-----------------------------------------------------------------------------
(* Properties of the parsing of documentation *)

\* the five repairs of the documented call, in the order (i) to (v)
FiveRepairs(text) ==
    LET call == GetFirstFunctionCall(text)
        stripped == StripBrackets(call)
    IN  <<call, stripped, TypedSelf(stripped), BareSelf(stripped),
          StripDefaults(stripped)>>

\* the repair is a syntactically valid header
ValidHeader(repair) == ParseDef(repair).ok

\* the repair is a valid header of the name the probe asks for (of any name
\* for the documentation of the namespace)
Acceptable(repair) ==
    /\ ValidHeader(repair)
    /\ probe.ofModule \/ ParseDef(repair).name = StrOf(probe.name)

\* C20: the result comes from the first of the repairs (i) to (v) that is a
\* valid header of the callable's name (of any name for the documentation
\* of the namespace); a valid header of another name is never accepted for
\* the callable's own documentation, it gives a warning and the next repair
\* is tried
C20_FirstAcceptableRepair ==
    probe.op = "parsed" /\ Truthy(GetFirstFunctionCall(probe.text)) =>
        LET r == FiveRepairs(probe.text)
            good == {i \in 1..5 : Acceptable(r[i])}
            k == CHOOSE i \in good : \A j \in good : i <= j
            refused(n) == {i \in 1..n : ValidHeader(r[i]) /\ i \notin good}
        IN  IF good = {}
            THEN probe.sig = NoneV /\ probe.warn = Cardinality(refused(5))
            ELSE /\ probe.sig
                    = SigText(probe.name,
                              InsertDefaultArguments(
                                  AstArgsToList(ParseDef(r[k]).args),
                                  probe.defaults))
                 /\ probe.warn = Cardinality(refused(k))
                 /\ ~probe.ofModule => ParseDef(r[k]).name = StrOf(probe.name)

\* the documentation of a callable f began with C.g(x): the two rewritings
\* with self are valid headers of g, each was refused with a warning, and
\* there is no result
C20_OtherNameRefused ==
    /\ probe.op = "parsed"
    /\ probe.name = <<"f">>
    /\ probe.text = <<"C", ".", "g", "(", "x", ")">>
    /\ ~probe.ofModule
    /\ ~legacy
    /\ probe.sig = NoneV
    /\ probe.warn = 2

-----------------------------------------------------------------------------
(* Properties of the example-call extraction *)

RECURSIVE Depth(_, _)
\* opening minus closing parentheses among the first i characters of s
Depth(s, i) ==
    IF i = 0 THEN 0
    ELSE Depth(s, i - 1) + (IF s[i] = "(" THEN 1
                            ELSE IF s[i] = ")" THEN -1 ELSE 0)

\* every closing parenthesis of s matches an opening one before it and
\* every opening one is closed
Balanced(s) ==
    /\ Depth(s, Len(s)) = 0
    /\ \A i \in 1..Len(s) : Depth(s, i) >= 0

\* C21: the extraction returns nothing, or a prefix of the text without its
\* leading whitespace that ends at a closing parenthesis and is balanced: it
\* ends at the close matching the first opening parenthesis, never at a
\* close that has no opening one before it
C21_BalancedPrefix ==
    probe.op = "call" /\ probe.call # NoneV =>
        /\ IsPrefix(probe.call, LStrip(probe.text))
        /\ probe.call[Len(probe.call)] = ")"
        /\ Balanced(probe.call)
        /\ \A i \in 1..Len(probe.call) - 1 : Depth(probe.call, i) > 0
               \/ \A j \in 1..i : probe.call[j] # "("

-----------------------------------------------------------------------------
(* Properties of the declarations of local types *)

\* the entry has a value and an unqualified type name
NamesLocalType(m) ==
    /\ m.value # "None"
    /\ Truthy(m.type_name)
    /\ ~HasChar(m.type_name, ".")

\* the type the entry's type name stands for: the value itself when it is a
\* type, the type of the value otherwise
TypeNamedBy(m) == IF Obj(m.value).isType THEN m.value ELSE Obj(m.value).cls

\* e is an entry named as m's type that describes that type
Declares(e, m) == e.name = m.type_name /\ e.value = TypeNamedBy(m)

RECURSIVE InOrderOf(_, _)
\* the names of list are met in this order among names
InOrderOf(list, names) ==
    IF list = <<>> THEN TRUE
    ELSE IF names = <<>> THEN FALSE
    ELSE IF Head(list).name = Replace(Head(names), "-", "_")
    THEN InOrderOf(Tail(list), Tail(names))
    ELSE InOrderOf(list, Tail(names))

\* the entries of new behind those of old and of the back-fill are in the
\* order of dir()
DiscoveryOrder(old, new) ==
    LET attrs == Scanned(RootOf(module_name)).attrs
    IN  \E k \in 0..(Len(new) - Len(old)) :
            /\ SubSeq(new, k + 1, k + Len(old)) = old
            /\ InOrderOf(SubSeq(new, k + Len(old) + 1, Len(new)),
                         [j \in 1..Len(attrs) |-> attrs[j].name])

\* C22: after Phase 1 and the back-fill every top-level entry with a value
\* and an unqualified type name T has a top-level entry named T describing
\* that type; the back-filled entries come before the entries of Phase 1,
\* which keep their discovery order
C22_LocalTypesDeclared ==
    [][pc = "imported" /\ pc' = "collected" =>
          /\ \A i \in 1..Len(members') :
                NamesLocalType(members'[i]) =>
                    \E j \in 1..Len(members') :
                        Declares(members'[j], members'[i])
          /\ Backfilled(members, members')
          /\ DiscoveryOrder(members, members')]_vars

-----------------------------------------------------------------------------
(* Properties of Phase 2 *)

\* the step of a scan that is Phase 2
Phase2 == pc = "filtered" /\ pc' = "nested"

\* the entry is named as its type, which is of the scanned namespace
NamedAsLocalType(e) ==
    /\ \E k \in 1..Len(e.need_imports) : e.need_imports[k] = module_name
    /\ e.name = e.type_name

\* the type of the entry is the marker type of compiled libraries
CompiledLibrary(e) ==
    e.type_name = BuiltinsName \o <<".", "CompiledLib">>

\* dir() of the entry's value lists __class__
ListsClass(e) ==
    \E j \in 1..Len(Scanned(e.value).attrs) :
        Scanned(e.value).attrs[j].name = <<"__class__">>

\* the entry's member list was extended, and holds __class__ with the
\* entry's type name as its literal
Extended(old, new) ==
    /\ IsPrefix(old.members, new.members)
    /\ ListsClass(old) =>
          \E k \in 1..Len(new.members) :
              /\ new.members[k].name = <<"__class__">>
              /\ new.members[k].literal = old.type_name

\* the nested entries of the list have no members of their own
OneLevel(list) ==
    \A i \in 1..Len(list) :
        \A k \in 1..Len(list[i].members) : list[i].members[k].members = <<>>

\* C23 as stated: Phase 2 enters only a top-level entry that is a class of
\* the scanned namespace under its own name, or whose type is the marker
\* type of compiled libraries; every other entry, also a value that is no
\* class and is named as its local type, keeps its member list, and no
\* nested entry has members
C23_OnlyLocalClasses ==
    [][Phase2 =>
          /\ \A i \in 1..Len(members) :
                ~(\/ NamedAsLocalType(members[i])
                        /\ Obj(members[i].value).isType
                  \/ CompiledLibrary(members[i]))
                => members'[i].members = members[i].members
          /\ OneLevel(members')]_vars

\* C23 as amended: Phase 2 enters exactly the top-level entries that are
\* named as their type of the scanned namespace, a class or a value of that
\* type (a static class), or whose type is the marker type of compiled
\* libraries; every other entry keeps its member list, and no nested entry
\* has members
C23_NamedAsTheirType ==
    [][Phase2 =>
          /\ \A i \in 1..Len(members) :
                IF NamedAsLocalType(members[i]) \/ CompiledLibrary(members[i])
                THEN Extended(members[i], members'[i])
                ELSE members'[i].members = members[i].members
          /\ OneLevel(members')]_vars

\* Phase 2 entered a value that is no class and is named as its type, and
\* a compiled library
C23_StaticClassEntered ==
    /\ pc = "nested"
    /\ Len(members) = 2
    /\ members[1].value = "static1" /\ Len(members[1].members) = 3
    /\ members[2].value = "lib" /\ Len(members[2].members) = 2

-----------------------------------------------------------------------------
(* Properties of the defaults of a parsed parameter list *)

RECURSIVE ParamTextsFrom(_, _, _, _)
\* the parameters of a signature text, read from chunk i on: depth counts
\* the open brackets, cur is the text of the parameter being read
ParamTextsFrom(sig, i, depth, cur) ==
    LET c == sig[i]
    IN  IF i > Len(sig) THEN <<>>
        ELSE IF depth = 0
        THEN ParamTextsFrom(sig, i + 1, IF c = "(" THEN 1 ELSE 0, <<>>)
        ELSE IF c \in {"(", "[", "{"}
        THEN ParamTextsFrom(sig, i + 1, depth + 1, Append(cur, c))
        ELSE IF c \in {")", "]", "}"}
        THEN IF depth = 1 THEN (IF cur = <<>> THEN <<>> ELSE <<cur>>)
             ELSE ParamTextsFrom(sig, i + 1, depth - 1, Append(cur, c))
        ELSE IF c = "," /\ depth = 1
        THEN <<cur>> \o ParamTextsFrom(sig, i + 1, depth, <<>>)
        ELSE IF c = " " /\ cur = <<>>
        THEN ParamTextsFrom(sig, i + 1, depth, cur)
        ELSE ParamTextsFrom(sig, i + 1, depth, Append(cur, c))

\* the parameters of the text name(p1, p2=d), each with its default
ParamTexts(sig) == ParamTextsFrom(sig, 1, 0, <<>>)

\* the parameter is rendered as name=default
WithDefault(p) == Len(p) >= 3 /\ p[2] = "="

\* the parameters of the header the result was made of: those of the first
\* acceptable repair
AcceptedArgs(text) ==
    LET r == FiveRepairs(text)
        good == {i \in 1..5 : Acceptable(r[i])}
    IN  ParseDef(r[CHOOSE i \in good : \A j \in good : i <= j]).args

\* the default of the parsed parameter is absent or cannot be rendered
Unrenderable(arg) == ~arg.hasDefault \/ Walk(arg.default) = NoneV

\* C24: in a parameter list made from a documentation text no parameter
\* without a default follows one with a default, also after the suffixing
\* of repeated names, defaults that cannot be rendered and the
\* reconciliation with the implicit arguments; a parameter behind a
\* rendered default whose own default is absent or cannot be rendered is
\* rendered as name=None
C24_DefaultsToTheEnd ==
    probe.op = "parsed" /\ probe.sig # NoneV =>
        LET ps == ParamTexts(probe.sig)
            args == AcceptedArgs(probe.text)
            shift == Len(ps) - Len(args)
        IN  /\ \A i, j \in 1..Len(ps) :
                  i < j /\ WithDefault(ps[i]) => WithDefault(ps[j])
            /\ shift >= 0
            /\ \A j \in 1..Len(args) :
                  /\ Unrenderable(args[j])
                  /\ \E i \in 1..(shift + j - 1) : WithDefault(ps[i])
                  => SubSeq(ps[shift + j], 2, 3) = <<"=", "None">>

\* the implicit self was put before a list in which a default that is a
\* call and a default the runtime cannot render follow a rendered default
C24_NoneAfterDefault ==
    /\ probe.op = "parsed"
    /\ astConstant
    /\ probe.defaults = << <<"self">> >>
    /\ probe.sig = <<"f", "(", "self", ",", " ", "a", "=", "x", ",", " ",
                     "b", "=", "None", ",", " ", "c", "=", "None", ")">>

====
